---------------------------- MODULE Spec2Model ----------------------------
(***************************************************************************)
(* Request dispatch pipeline of go-twitter: the account pool, the          *)
(* per-endpoint rate limiter, the request executor (doGET / doPOST), the   *)
(* guest-token cache and the transaction-ID manager.                       *)
(*                                                                         *)
(* Time is a discrete clock `now`, one tick = four hours; the zero        *)
(* time.Time is 0 and the clock starts at 1.  A duration is counted in     *)
(* ticks, rounded up: the 15 minute rate-limit fallback, the 5 minute      *)
(* NextWithWait budget, the proxy backoff, the 30 minute xtid refresh      *)
(* interval and the 1 hour AuthCooldown are one tick, the 6 hour           *)
(* BanCooldown is two.  A deadline `t0 + d` with d below one tick is       *)
(* t0 + 1, so "now is after the deadline" and "more than d has passed"     *)
(* both read "at least one tick has passed".  Local computation takes no   *)
(* time: an action runs a goroutine from one suspension point (sleep,      *)
(* network I/O) to the next.                                               *)
(***************************************************************************)
EXTENDS Integers, Sequences, FiniteSets, TLC

\* ------------------------------------------------------------------ bounds
NumAccounts == 2      \* accounts configured (cfg.Accounts)
NumProcs == 1         \* callers of doGET / doPOST running at a time
MaxTime == 3          \* last tick of the clock
MaxCalls == 2         \* doGET / doPOST calls started in one run
MaxReq == 3           \* HTTP requests sent in one run
MaxRare == 1          \* rare events of one run: a response that is not in
                      \* PlainResponses, a failed Manager.Initialize, a
                      \* GenerateCT0 draw equal to the token it replaces
NumCT0 == 2           \* distinct values GenerateCT0 / Set-Cookie can take
NumGuestTokens == 2   \* distinct guest tokens activate.json can return
MaxLen == 1           \* bytes in a token handed to saveSession
MaxSaves == 2         \* saveSession calls in one run of the session store
MaxClock == 3         \* ticks the session store is followed for
TestTTL == 1          \* the ttl handed to loadSession in the session store
NumCallers == 2       \* goroutines calling Manager.GenerateID
MaxBuilds == 2        \* signing states newClientTransaction builds in one run
MaxGen == 3           \* GenerateID calls in one run of the manager
MaxXtClock == 2       \* ticks the manager is followed for
MaxErrors == 2        \* entries of a body's errors array
MaxClassify == 2      \* classifyError calls on one body
MaxPath == 2          \* characters in a path and in a query handed to GenerateID
MaxRotate == 2        \* RotateCT0 calls on the account of the ct0 unit
MaxGenerate == 2      \* GenerateCT0 calls in the ct0 unit
MaxHeader == 3        \* characters in an x-rate-limit-reset value
MaxInt == 127         \* the largest value ParseInt accepts (stands for 1<<63 - 1)
NumGoroutines == 2    \* goroutines working on the one account of the account unit
MaxOps == 2           \* operations each of them starts
MaxProxyEvents == 9   \* request outcomes on the account of the proxy unit
MaxProxyClock == 2    \* minutes the proxy unit is followed for
MaxMatches == 2       \* matches of indicesRegex in the on-demand script
RequestsPerWindow == 2  \* cfg.RateLimit.RequestsPerWindow
WindowDuration == 1     \* cfg.RateLimit.WindowDuration, in ticks

\* ------------------------------------------------------- program constants
maxRetries == 3           \* const maxRetries
ct0MaxAge == 1            \* 4 * time.Hour, one tick
ct0ZeroAge == 6           \* CT0Age of a zero ct0RefreshedAt: 24 * time.Hour
AuthCooldown == 1         \* cfg.AuthCooldown default, 1 hour, one tick
BanCooldown == 2          \* cfg.BanCooldown default, 6 hours, two ticks
rateLimitFallback == 1    \* 15 minutes, counted as one tick
nextWaitMax == 1          \* 5 * time.Minute, counted as one tick
proxyBackoffWait == 1     \* ProxyBackoffInitial..Max (30s..30min), one tick
refreshInterval == 1      \* 30 * time.Minute, counted as one tick
guestAttempts == 3        \* acquireGuestToken: attempt < 3
SessionTTL == 6           \* ClientConfig.defaults: 24 * time.Hour

Accounts == 1..NumAccounts
Procs == 1..NumProcs
CT0Values == 1..NumCT0
GuestTokens == 1..NumGuestTokens
GetEndpoints == {"UserByScreenName", "Following"}
PostEndpoints == {"CreateTweet"}
Endpoints == GetEndpoints \cup PostEndpoints
NoAccount == 0

VARIABLES
    now,        \* the clock
    accounts,   \* [Accounts -> Account]
    sessions,   \* [Accounts -> savedSession or NoSession]: <sessionDir>/<username>.json
    pool,       \* pool.Pool[*Account]: items and round-robin cursor
    guest,      \* Client.guestToken, Client.guestLimitedUntil
    xtidMgr,    \* xtid.Manager: ct (present or nil), lastRefresh
    cfg,        \* ClientConfig: CaptchaSolver
    calls,      \* [Procs -> the locals and position of a doGET / doPOST call]
    lastReq,    \* history: the HTTP request sent by the latest step
    lastResp,   \* history: the response the latest step handled
    lastRelogin, \* history: the relogin that returned in the latest step
    reset429,   \* history: [Accounts -> [Endpoints -> latest reset of a 429]]
    sendTimes,  \* history: [Accounts -> [Endpoints -> times of the sends in the window]]
    nReq,       \* history: requests sent
    nRare,      \* history: rare events so far
    nCalls,     \* history: calls started
    login,      \* one run of Client.login, taken on its own
    xt,         \* one xtid.Manager and its GenerateID callers, step by step
    unit        \* one call of a function taken on its own: input and result

\* The executor's state, and the state of the parts taken on their own.
execVars == <<now, accounts, sessions, pool, guest, xtidMgr, cfg, calls,
              lastReq, lastResp, lastRelogin, reset429, sendTimes, nReq, nRare,
              nCalls>>
unitVars == <<login, xt, unit>>
vars == <<execVars, unitVars>>

\* A part that is not running.
Off == [pc |-> "off"]

NoSession == [AuthToken |-> 0, CT0 |-> 0, SavedAt |-> 0]
NoReq == [kind |-> "none"]
NoResp == [err |-> "none"]
NoRelogin == [acc |-> 0]

\* --------------------------------------------------------------- requiresAuth
requiresAuth(endpoint) ==
    endpoint \in {"Following", "Followers", "Retweeters", "CreateTweet"}

\* ------------------------------------------------------------- error classes
errNone == "errNone"
errBanned == "errBanned"
errSuspended == "errSuspended"
errLocked == "errLocked"
errCSRF == "errCSRF"
errAuthExpired == "errAuthExpired"
errBlocked == "errBlocked"
errNotAuthorized == "errNotAuthorized"
errInternal == "errInternal"

codeClass(code) ==
    CASE code = 88 -> errBanned
      [] code = 64 -> errSuspended
      [] code = 326 -> errLocked
      [] code = 353 -> errCSRF
      [] code = 32 -> errAuthExpired
      [] code = 161 -> errBlocked
      [] code \in {179, 219} -> errNotAuthorized
      [] code = 131 -> errInternal
      [] OTHER -> errNone

\* A scan that stops at the first code, recognised or not (what C19 rests on).
classifyCodes_noSkip(codes) ==
    IF codes = <<>> THEN errNone ELSE codeClass(Head(codes))

RECURSIVE classifyCodes(_)
classifyCodes(codes) ==
    IF codes = <<>> THEN errNone
    ELSE IF codeClass(Head(codes)) # errNone THEN codeClass(Head(codes))
    ELSE classifyCodes(Tail(codes))

\* A body is [json: the body parses, codes: the codes of its errors array,
\* data: it has a non-null data field].
classifyError(body) ==
    IF ~body.json \/ body.codes = <<>> THEN errNone ELSE classifyCodes(body.codes)

hasResponseData(body) == body.json /\ body.data

\* parseRateLimitReset: the header is [numeric: strconv.ParseInt succeeds,
\* ts: the Unix time it names]; t is time.Now().
\* A fallback of no duration (what C23 rests on).
parseRateLimitReset_noFallback(v, t) == IF v.numeric THEN v.ts ELSE t

parseRateLimitReset(v, t) == IF v.numeric THEN v.ts ELSE t + rateLimitFallback

\* extractCT0FromHeaders: the cookie is 0 when no ct0= part is present.
extractCT0FromHeaders(cookie) == cookie


\* ------------------------------------------------------------ rate limiter
\* ratelimit.Limiter (go-stealth): per endpoint the grant times of the tokens
\* consumed in the running window and the server-forced deadline.
NewLimiter ==
    [granted |-> [e \in Endpoints |-> <<>>], limitedUntil |-> [e \in Endpoints |-> 0]]

limiterLive(rl, endpoint) ==
    SelectSeq(rl.granted[endpoint], LAMBDA t : t > now - WindowDuration)

\* Allow: the verdict, and the limiter after the call (a token is consumed
\* when the verdict is TRUE).
limiterAllows(rl, endpoint) ==
    /\ ~(now < rl.limitedUntil[endpoint])
    /\ Len(limiterLive(rl, endpoint)) < RequestsPerWindow

limiterAfterAllow(rl, endpoint) ==
    IF limiterAllows(rl, endpoint)
    THEN [rl EXCEPT !.granted[endpoint] = Append(limiterLive(rl, endpoint), now)]
    ELSE rl

limiterMarkRateLimited(rl, endpoint, until) ==
    [rl EXCEPT !.limitedUntil[endpoint] = until]

\* The limiter when the clock shows t: the grants that left the window and
\* the deadlines that passed are forgotten.
limiterAt(rl, t) ==
    [granted |-> [e \in Endpoints |->
                    SelectSeq(rl.granted[e], LAMBDA g : g > t - WindowDuration)],
     limitedUntil |-> [e \in Endpoints |->
                    IF rl.limitedUntil[e] > t THEN rl.limitedUntil[e] ELSE 0]]

\* ------------------------------------------------------------------ Account
\* IsActive as a pool that ignores the flag would see it (what C3 rests on).
IsActive_ignoresFlag(a) == TRUE

IsActive(a) == a.active

CT0Age(a) == IF a.ct0RefreshedAt = 0 THEN ct0ZeroAge ELSE now - a.ct0RefreshedAt

RotateCT0(a, fresh) == [a EXCEPT !.CT0 = fresh, !.ct0RefreshedAt = now]

SetCT0(a, v) == [a EXCEPT !.CT0 = v, !.ct0RefreshedAt = now]

SetCredentials(a, authToken, v) ==
    [a EXCEPT !.AuthToken = authToken, !.CT0 = v, !.ct0RefreshedAt = now]

AllowRequest(a, endpoint) == limiterAllows(a.rateLimiter, endpoint)

AfterAllowRequest(a, endpoint) ==
    [a EXCEPT !.rateLimiter = limiterAfterAllow(@, endpoint)]

MarkEndpointRateLimited(a, endpoint, until) ==
    [a EXCEPT !.rateLimiter = limiterMarkRateLimited(@, endpoint, until)]

\* pool.HealthTracker (go-stealth), embedded in Account.
RecordSuccess(a) == [a EXCEPT !.total = @ + 1, !.consec = 0]

RecordFailure(a) == [a EXCEPT !.total = @ + 1, !.failed = @ + 1, !.consec = @ + 1]

Reset(a) == [a EXCEPT !.total = 0, !.failed = 0, !.consec = 0]

resetProxyConsecFails(a) == [a EXCEPT !.proxyConsecFails = 0]

markProxyDown(a) ==
    [a EXCEPT !.proxyConsecFails = @ + 1, !.proxyBackoff = now + proxyBackoffWait]

\* --------------------------------------------------------------------- pool
SoftDeactivate(a, d) == [a EXCEPT !.active = FALSE, !.reactivateAt = now + d]

DeactivateItem(a) == [a EXCEPT !.active = FALSE, !.reactivateAt = 0]

\* The lazy check of Next: a soft-deactivated item whose time has come is
\* active again.
poolReactivate(a) ==
    IF ~a.active /\ a.reactivateAt # 0 /\ now >= a.reactivateAt
    THEN [a EXCEPT !.active = TRUE, !.reactivateAt = 0]
    ELSE a

\* The filter doGET hands to the pool:
\*   a.AllowRequest(endpoint) && time.Now().After(a.proxyBackoff)
doGETFilter(a, endpoint) == AllowRequest(a, endpoint) /\ now >= a.proxyBackoff

\* Next(filter): from the cursor on, the first item that is active and passes
\* the filter; the filter's side effect stays on every item it was asked about.
RECURSIVE poolScan(_, _, _, _)
poolScan(accs, pl, k, endpoint) ==
    IF k >= Len(pl.items)
    THEN [accounts |-> accs, found |-> NoAccount, cursor |-> pl.cursor]
    ELSE LET i == ((pl.cursor + k) % Len(pl.items)) + 1
             id == pl.items[i]
             a1 == poolReactivate(accs[id])
         IN  IF ~IsActive(a1)
             THEN poolScan([accs EXCEPT ![id] = a1], pl, k + 1, endpoint)
             ELSE LET a2 == AfterAllowRequest(a1, endpoint)
                  IN  IF doGETFilter(a1, endpoint)
                      THEN [accounts |-> [accs EXCEPT ![id] = a2], found |-> id,
                            cursor |-> i % Len(pl.items)]
                      ELSE poolScan([accs EXCEPT ![id] = a2], pl, k + 1, endpoint)

poolNext(accs, pl, endpoint) == poolScan(accs, pl, 0, endpoint)

\* ------------------------------------------------------------ session store
saveSession(sess, id, authToken, v) ==
    [sess EXCEPT ![id] = [AuthToken |-> authToken, CT0 |-> v, SavedAt |-> now]]

removeSession(sess, id) == [sess EXCEPT ![id] = NoSession]

\* loadSession: the pair on disk, or the empty pair when there is no file,
\* the file cannot be read or parsed (err), or it is older than the TTL.
loadSession(sess, id, ttl, corrupt) ==
    LET s == sess[id]
    IN  IF s = NoSession THEN [AuthToken |-> 0, CT0 |-> 0, err |-> FALSE]
        ELSE IF corrupt THEN [AuthToken |-> 0, CT0 |-> 0, err |-> TRUE]
        ELSE IF now - s.SavedAt > ttl THEN [AuthToken |-> 0, CT0 |-> 0, err |-> FALSE]
        ELSE [AuthToken |-> s.AuthToken, CT0 |-> s.CT0, err |-> FALSE]

\* loadOrLogin that looks at the provided credentials before the disk (what
\* C14 rests on).
loadOrLogin_providedFirst(a, sess, id, corrupt) ==
    LET l == loadSession(sess, id, SessionTTL, corrupt)
    IN  IF a.AuthToken # 0 /\ a.CT0 # 0
        THEN [acc |-> [a EXCEPT !.ct0RefreshedAt = now],
              sessions |-> saveSession(sess, id, a.AuthToken, a.CT0),
              err |-> FALSE, login |-> FALSE]
        ELSE IF l.AuthToken # 0 /\ l.CT0 # 0
        THEN [acc |-> [a EXCEPT !.AuthToken = l.AuthToken, !.CT0 = l.CT0,
                                !.ct0RefreshedAt = now],
              sessions |-> sess, err |-> FALSE, login |-> FALSE]
        ELSE [acc |-> a, sessions |-> sess, err |-> ~a.Password, login |-> a.Password]

\* loadOrLogin up to the call of login: the session on disk, else the
\* provided credentials (saved), else an error without password, else login.
loadOrLogin(a, sess, id, corrupt) ==
    LET l == loadSession(sess, id, SessionTTL, corrupt)
    IN  IF l.AuthToken # 0 /\ l.CT0 # 0
        THEN [acc |-> [a EXCEPT !.AuthToken = l.AuthToken, !.CT0 = l.CT0,
                                !.ct0RefreshedAt = now],
              sessions |-> sess, err |-> FALSE, login |-> FALSE]
        ELSE IF a.AuthToken # 0 /\ a.CT0 # 0
        THEN [acc |-> [a EXCEPT !.ct0RefreshedAt = now],
              sessions |-> saveSession(sess, id, a.AuthToken, a.CT0),
              err |-> FALSE, login |-> FALSE]
        ELSE [acc |-> a, sessions |-> sess, err |-> ~a.Password, login |-> a.Password]

\* loadOrLogin after login returned: an error, or the credentials login set
\* from the cookies, which are saved.
loadOrLoginAfterLogin(a, sess, id, loginOk, authToken, v) ==
    IF ~loginOk THEN [acc |-> a, sessions |-> sess, err |-> TRUE]
    ELSE [acc |-> SetCredentials(a, authToken, v),
          sessions |-> saveSession(sess, id, authToken, v), err |-> FALSE]

\* ------------------------------------------------------ transaction manager
\* Manager.GenerateID: refresh when no state was built or the state is older
\* than refreshInterval; initOk is the outcome of Initialize (network).
xtidNeedRefresh(m) == ~m.ct \/ now - m.lastRefresh >= refreshInterval

xtidAfterGenerate(m, initOk) ==
    IF xtidNeedRefresh(m) /\ initOk THEN [ct |-> TRUE, lastRefresh |-> now] ELSE m

\* GenerateID returns a token (TRUE) unless no state has ever been built.
xtidGenerated(m, initOk) == xtidAfterGenerate(m, initOk).ct

\* -------------------------------------------------------------- guest token
\* getGuestTokenCached as a client without a cache would answer (what C8
\* rests on).
getGuestTokenCached_noCache(g) == [token |-> 0, ok |-> FALSE]

getGuestTokenCached(g) ==
    IF g.guestToken = 0 \/ now < g.guestLimitedUntil
    THEN [token |-> 0, ok |-> FALSE]
    ELSE [token |-> g.guestToken, ok |-> TRUE]

setGuestToken(g, token) == [guestToken |-> token, guestLimitedUntil |-> 0]

markGuestTokenRateLimited(g, until) == [g EXCEPT !.guestLimitedUntil = until]


\* ---------------------------------------------------------------- responses
okBody == [json |-> TRUE, codes |-> <<>>, data |-> TRUE]
badBody == [json |-> FALSE, codes |-> <<>>, data |-> FALSE]
errBody(codes, data) == [json |-> TRUE, codes |-> codes, data |-> data]
NoHeader == [numeric |-> FALSE, ts |-> 0]

\* What the network can answer to one request: a transport error (err), or a
\* status, a body, the x-rate-limit-reset header and the ct0 of set-cookie.
\* vote is RecordFailure's verdict (the health policy of go-stealth).
Response(err, status, body, reset, cookie, vote) ==
    [err |-> err, status |-> status, body |-> body, reset |-> reset,
     cookie |-> cookie, vote |-> vote]

ErrorBodies ==
    {errBody(<<c>>, FALSE) : c \in {88, 64, 326, 353, 32, 161, 179, 219, 131, 999}}
    \cup {errBody(<<131>>, TRUE), errBody(<<999, 353>>, FALSE), badBody}

Responses ==
    {Response(e, 0, badBody, NoHeader, 0, FALSE) : e \in {"proxy", "other"}}
    \cup {Response("nil", 429, badBody, h, 0, FALSE) :
            h \in {NoHeader, [numeric |-> TRUE, ts |-> now + 2]}}
    \cup {Response("nil", 401, b, NoHeader, 0, FALSE) :
            b \in {errBody(<<353>>, FALSE), errBody(<<32>>, FALSE), badBody}}
    \cup {Response("nil", 403, badBody, NoHeader, 0, FALSE)}
    \cup {Response("nil", 201, okBody, NoHeader, 0, FALSE)}
    \cup {Response("nil", 500, okBody, NoHeader, 0, v) : v \in BOOLEAN}
    \cup {Response("nil", 200, b, NoHeader, 0, FALSE) : b \in ErrorBodies}
    \cup {Response("nil", 200, b, NoHeader, k, FALSE) :
            b \in {okBody, errBody(<<353>>, FALSE)}, k \in {0} \cup CT0Values}

\* The two answers a run may see any number of times: the data, and a 429
\* without a reset header.
PlainResponses ==
    {Response("nil", 200, okBody, NoHeader, 0, FALSE),
     Response("nil", 429, badBody, NoHeader, 0, FALSE)}

\* ------------------------------------------------------------------ the world
\* The state an executor step reads and writes, as one record, so that a
\* handler is the composition of the calls it makes.
World ==
    [accounts |-> accounts, sessions |-> sessions, pool |-> pool, guest |-> guest,
     xtidMgr |-> xtidMgr, calls |-> calls, lastReq |-> NoReq, lastResp |-> NoResp,
     lastRelogin |-> NoRelogin,
     reset429 |-> reset429, sendTimes |-> sendTimes, nReq |-> nReq, nRare |-> nRare]

\* The world when `resp` arrives.
Received(p, resp) ==
    [World EXCEPT !.nRare = IF resp \in PlainResponses THEN @ ELSE @ + 1,
                  !.lastResp = [err |-> resp.err, proc |-> p, status |-> resp.status,
                                class |-> classifyError(resp.body),
                                data |-> hasResponseData(resp.body),
                                newCT0 |-> extractCT0FromHeaders(resp.cookie),
                                vote |-> resp.vote]]

Commit(W) ==
    /\ W.nReq <= MaxReq
    /\ W.nRare <= MaxRare
    /\ accounts' = W.accounts
    /\ sessions' = W.sessions
    /\ pool' = W.pool
    /\ guest' = W.guest
    /\ xtidMgr' = W.xtidMgr
    /\ calls' = W.calls
    /\ lastReq' = W.lastReq
    /\ lastResp' = W.lastResp
    /\ lastRelogin' = W.lastRelogin
    /\ reset429' = W.reset429
    /\ sendTimes' = W.sendTimes
    /\ nReq' = W.nReq
    /\ nRare' = W.nRare
    /\ UNCHANGED <<now, cfg, nCalls>>
    /\ UNCHANGED unitVars

IdleCall ==
    [pc |-> "idle", kind |-> "GET", endpoint |-> "UserByScreenName", acc |-> NoAccount,
     attempt |-> 0, cancelled |-> FALSE, lastErr |-> FALSE, ct0 |-> 0,
     stage |-> "none", waitUntil |-> 0, acqAttempt |-> 0, result |-> "none",
     hook |-> "none", nTries |-> 0, exhausted |-> FALSE, nActivate |-> 0,
     nGuestReq |-> 0, gtUsable |-> FALSE, ended |-> FALSE]

\* Client.recordAPICall: the metrics hook's latest invocation in this call.
recordAPICall(W, p, success, rateLimited) ==
    [W EXCEPT !.calls[p].hook =
        IF success THEN "success" ELSE IF rateLimited THEN "rateLimited" ELSE "failure"]

\* The locals of one iteration of the account loop, as a new iteration finds
\* them.
freshLocals(c) ==
    [c EXCEPT !.stage = "none", !.ct0 = 0, !.waitUntil = 0, !.acqAttempt = 0]

\* return body / return error: the call is over and its locals are gone; the
\* result and the history of the call stay.
finish(W, p, result) ==
    [W EXCEPT !.calls[p] = [freshLocals(@) EXCEPT !.pc = "done", !.result = result,
                                                  !.attempt = 0, !.lastErr = FALSE,
                                                  !.cancelled = FALSE,
                                                  !.acc = NoAccount]]

\* Client.doRequest: the x-client-transaction-id is injected when GenerateID
\* returns no error; the request is sent in either case.
doRequest(m, initOk) ==
    [xtidMgr |-> xtidAfterGenerate(m, initOk), txid |-> xtidGenerated(m, initOk)]

\* Client.doRequestWithBody: doRequest with a request body.
doRequestWithBody(m, initOk) ==
    [xtidMgr |-> xtidAfterGenerate(m, initOk), txid |-> xtidGenerated(m, initOk)]

\* The history of rare events after GenerateID ran with outcome initOk, and
\* after GenerateCT0 drew `fresh` to replace `old`.
afterInitialize(W, initOk) ==
    [W EXCEPT !.nRare = IF xtidNeedRefresh(W.xtidMgr) /\ ~initOk THEN @ + 1 ELSE @]

afterDraw(W, old, fresh) == [W EXCEPT !.nRare = IF fresh = old THEN @ + 1 ELSE @]

windowSends(times) == SelectSeq(times, LAMBDA t : t > now - WindowDuration)

\* One request with the account's credentials goes out (twitterHeaders of
\* acc.Credentials()); the goroutine waits for the response at `pc`.
sendAccount(W, p, id, in, pc) ==
    LET c == W.calls[p]
        a == W.accounts[id]
        r == IF c.kind = "GET" THEN doRequest(W.xtidMgr, in.initOk)
             ELSE doRequestWithBody(W.xtidMgr, in.initOk)
        times == Append(windowSends(W.sendTimes[id][c.endpoint]), now)
    IN  [afterInitialize(W, in.initOk) EXCEPT
            !.xtidMgr = r.xtidMgr,
            !.sendTimes[id][c.endpoint] = times,
            !.nReq = @ + 1,
            !.calls[p].pc = pc,
            !.calls[p].ct0 = IF pc = "sent" THEN a.CT0 ELSE @,
            !.lastReq = [kind |-> "account", proc |-> p, method |-> c.kind,
                         endpoint |-> c.endpoint, acc |-> id, at |-> now,
                         authToken |-> a.AuthToken, ct0 |-> a.CT0,
                         ct0RefreshedAt |-> a.ct0RefreshedAt, txid |-> r.txid,
                         inline |-> (pc # "sent"), cancelled |-> c.cancelled,
                         reset429 |-> W.reset429[id][c.endpoint],
                         inWindow |-> Len(times), gt |-> 0]]

\* One request with guestHeaders(gt) goes out on the shared client.
sendGuest(W, p, gt, in, pc) ==
    LET c == W.calls[p]
        r == doRequest(W.xtidMgr, in.initOk)
    IN  [afterInitialize(W, in.initOk) EXCEPT
            !.xtidMgr = r.xtidMgr,
            !.nReq = @ + 1,
            !.calls[p].pc = pc,
            !.calls[p].nGuestReq = @ + 1,
            !.lastReq = [kind |-> "guest", proc |-> p, method |-> c.kind,
                         endpoint |-> c.endpoint, acc |-> NoAccount, at |-> now,
                         authToken |-> 0, ct0 |-> 0, ct0RefreshedAt |-> 0,
                         txid |-> r.txid, inline |-> (pc # "guestSent"),
                         cancelled |-> c.cancelled, reset429 |-> 0, inWindow |-> 0,
                         gt |-> gt]]

\* getGuestToken: one POST to /1.1/guest/activate.json goes out.
sendActivate(W, p, pc) ==
    LET c == W.calls[p]
    IN  [W EXCEPT
            !.nReq = @ + 1,
            !.calls[p].pc = pc,
            !.calls[p].nActivate = @ + 1,
            !.lastReq = [kind |-> "activate", proc |-> p, method |-> "POST",
                         endpoint |-> c.endpoint, acc |-> NoAccount, at |-> now,
                         authToken |-> 0, ct0 |-> 0, ct0RefreshedAt |-> 0,
                         txid |-> FALSE, inline |-> (pc # "acquire"),
                         cancelled |-> c.cancelled, reset429 |-> 0, inWindow |-> 0,
                         gt |-> 0]]

\* The guest fallback without its requiresAuth gate (what C7 rests on).
guestFallback_noGate(W, p, in) ==
    LET g == getGuestTokenCached(W.guest)
        W1 == [W EXCEPT !.calls[p].gtUsable =
                  (W.guest.guestToken # 0 /\ now >= W.guest.guestLimitedUntil)]
    IN  IF ~g.ok
        THEN sendActivate([W1 EXCEPT !.calls[p].acqAttempt = 0], p, "acquire")
        ELSE sendGuest(W1, p, g.token, in, "guestSent")

\* doGET after the account loop: the guest-token fallback up to its first
\* network call.
guestFallback(W, p, in) ==
    LET c == W.calls[p]
        g == getGuestTokenCached(W.guest)
        W1 == [W EXCEPT !.calls[p].gtUsable =
                  (W.guest.guestToken # 0 /\ now >= W.guest.guestLimitedUntil)]
    IN  IF requiresAuth(c.endpoint) THEN finish(W, p, "error")
        ELSE IF ~g.ok
        THEN sendActivate([W1 EXCEPT !.calls[p].acqAttempt = 0], p, "acquire")
        ELSE sendGuest(W1, p, g.token, in, "guestSent")

\* The end of the account loop (break, or attempt = maxRetries).
afterLoop(W, p, in) ==
    LET W1 == [W EXCEPT !.calls[p].ended = TRUE]
    IN  IF W.calls[p].kind = "GET" THEN guestFallback(W1, p, in)
        ELSE finish(W1, p, "error")

\* continue in a loop that runs one iteration more (what C6 rests on).
continue_oneMore(W, p, in) ==
    LET W1 == [W EXCEPT !.calls[p] = [freshLocals(@) EXCEPT !.attempt = @ + 1,
                                                            !.lastErr = TRUE]]
    IN  IF W1.calls[p].attempt < maxRetries + 1
        THEN [W1 EXCEPT !.calls[p].pc = "backoff"]
        ELSE afterLoop(W1, p, in)

\* continue: the next attempt starts with the backoff sleep.
continue(W, p, in) ==
    LET W1 == [W EXCEPT !.calls[p] = [freshLocals(@) EXCEPT !.attempt = @ + 1,
                                                            !.lastErr = TRUE]]
    IN  IF W1.calls[p].attempt < maxRetries
        THEN [W1 EXCEPT !.calls[p].pc = "backoff"]
        ELSE afterLoop(W1, p, in)

\* The first send of an attempt without the proactive rotation (what C4
\* rests on).
afterSelect_noRotation(W, p, id, in) == sendAccount(W, p, id, in, "sent")

\* Proactive ct0 rotation, then the first send of the attempt.
afterSelect(W, p, id, in) ==
    LET a == W.accounts[id]
        a2 == RotateCT0(a, in.fresh)
        W1 == IF CT0Age(a) > ct0MaxAge
              THEN [afterDraw(W, a.CT0, in.fresh) EXCEPT !.accounts[id] = a2,
                             !.sessions = saveSession(@, id, a2.AuthToken, a2.CT0)]
              ELSE W
    IN  sendAccount(W1, p, id, in, "sent")

\* One iteration of the account loop up to its first suspension point:
\* doGET asks the pool (NextWithWait for an endpoint that requires auth),
\* doPOST uses the account it was given.
attemptBody(W, p, in) ==
    LET c == W.calls[p]
        W0 == [W EXCEPT !.calls[p].nTries = @ + 1]
        s == poolNext(W.accounts, W.pool, c.endpoint)
        W1 == [W0 EXCEPT !.accounts = s.accounts, !.pool.cursor = s.cursor]
    IN  IF c.kind = "POST" THEN afterSelect(W0, p, c.acc, in)
        ELSE IF s.found # NoAccount
        THEN afterSelect([W1 EXCEPT !.calls[p].acc = s.found], p, s.found, in)
        ELSE IF requiresAuth(c.endpoint)
        THEN [W1 EXCEPT !.calls[p].pc = "wait",
                        !.calls[p].waitUntil = now + nextWaitMax]
        ELSE afterLoop([W1 EXCEPT !.calls[p].exhausted = TRUE,
                                  !.calls[p].lastErr = TRUE], p, in)


\* ------------------------------------------------------------------ relogin
\* A failed relogin after which the account stays in the pool (what C25
\* rests on).
reloginFailed_noDeactivate(W0, p, id, in) ==
    continue([W0 EXCEPT !.lastRelogin = [acc |-> id, err |-> TRUE]], p, in)

\* What follows a failed relogin, by the place that ran it.
reloginFailed(W0, p, id, in) ==
    LET c == W0.calls[p]
        a == W0.accounts[id]
        W == [W0 EXCEPT !.lastRelogin = [acc |-> id, err |-> TRUE]]
    IN  IF c.kind = "POST" THEN continue(W, p, in)
        ELSE IF c.stage = "locked"
        THEN continue([W EXCEPT !.accounts[id] = SoftDeactivate(a, BanCooldown)], p, in)
        ELSE continue([W EXCEPT !.accounts[id] = SoftDeactivate(a, AuthCooldown)], p, in)

\* Client.relogin up to the first request of login: the credentials are
\* cleared, the session file is removed, loadOrLogin finds neither a session
\* nor provided credentials, fails at once when there is no password, and
\* otherwise login asks for a guest token of its own (getGuestToken).
relogin(W, p, id, stage, in) ==
    LET r == loadOrLogin(SetCredentials(W.accounts[id], 0, 0),
                         removeSession(W.sessions, id), id, FALSE)
        W1 == [W EXCEPT !.accounts[id] = r.acc,
                        !.sessions = r.sessions,
                        !.calls[p].stage = stage]
    IN  IF ~r.login THEN reloginFailed(W1, p, id, in)
        ELSE [W1 EXCEPT
                !.calls[p].pc = "loginToken",
                !.lastReq = [kind |-> "loginActivate", proc |-> p, method |-> "POST",
                             endpoint |-> W.calls[p].endpoint, acc |-> id, at |-> now,
                             cancelled |-> W.calls[p].cancelled, gt |-> 0]]

\* login after getGuestToken: without a token the login fails; with one,
\* initLoginFlowFull and the subtask requests go out, each with the token in
\* x-guest-token (loginFlowHeaders).
loginToken(W, p, ok, token, in) ==
    LET id == W.calls[p].acc
    IN  IF ~ok THEN reloginFailed(W, p, id, in)
        ELSE [W EXCEPT
                !.calls[p].pc = "relogin",
                !.lastReq = [kind |-> "loginFlow", proc |-> p, method |-> "POST",
                             endpoint |-> W.calls[p].endpoint, acc |-> id, at |-> now,
                             cancelled |-> W.calls[p].cancelled, gt |-> token]]

\* The login flow has ended: on success login sets the credentials from the
\* cookies (a missing ct0 cookie is generated), loadOrLogin saves the session,
\* relogin resets the health tracker and the caller re-sends the request.
reloginDone(W, p, loginOk, cookie, in) ==
    LET id == W.calls[p].acc
        v == IF cookie # 0 THEN cookie ELSE in.fresh
        r == loadOrLoginAfterLogin(W.accounts[id], W.sessions, id, loginOk, 1, v)
    IN  IF r.err THEN reloginFailed(W, p, id, in)
        ELSE sendAccount([W EXCEPT !.accounts[id] = Reset(r.acc),
                                   !.sessions = r.sessions,
                                   !.lastRelogin = [acc |-> id, err |-> FALSE]],
                         p, id, in, "retry")

\* acc.SetCT0(newCT0) and saveSession, when the response set a ct0 cookie.
adoptCT0(W, id, newCT0) ==
    LET a == SetCT0(W.accounts[id], newCT0)
    IN  [W EXCEPT !.accounts[id] = a,
                  !.sessions = saveSession(@, id, a.AuthToken, a.CT0)]

\* The CSRF branch without its saveSession (what C24 rests on).
csrfRetry_noSave(W, p, id, stage, in) ==
    LET a == RotateCT0(W.accounts[id], in.fresh)
    IN  sendAccount([afterDraw(W, W.accounts[id].CT0, in.fresh) EXCEPT
                              !.accounts[id] = a,
                              !.calls[p].stage = stage],
                    p, id, in, "retry")

\* RotateCT0, saveSession and the inline re-send of the CSRF branches.
csrfRetry(W, p, id, stage, in) ==
    LET a == RotateCT0(W.accounts[id], in.fresh)
    IN  sendAccount([afterDraw(W, W.accounts[id].CT0, in.fresh) EXCEPT
                              !.accounts[id] = a,
                              !.sessions = saveSession(@, id, a.AuthToken, a.CT0),
                              !.calls[p].stage = stage],
                    p, id, in, "retry")

\* recordAPICall(endpoint, true, false); acc.RecordSuccess(); return body.
success(W, p, id) ==
    finish(recordAPICall([W EXCEPT !.accounts[id] = RecordSuccess(@)], p, TRUE, FALSE),
           p, "body")

\* The transport-error branch shared by doGET and doPOST.
transportError(W, p, id, resp, in) ==
    LET a == W.accounts[id]
    IN  continue([W EXCEPT !.accounts[id] =
                     IF a.Proxy /\ resp.err = "proxy" THEN markProxyDown(a)
                     ELSE RecordFailure(a)], p, in)

\* case status == 429, shared by doGET and doPOST.
rateLimited(W, p, id, resp, in) ==
    LET c == W.calls[p]
        until == parseRateLimitReset(resp.reset, now)
        old == W.reset429[id][c.endpoint]
        W1 == recordAPICall(W, p, FALSE, TRUE)
    IN  continue([W1 EXCEPT
                     !.accounts[id] = MarkEndpointRateLimited(@, c.endpoint, until),
                     !.reset429[id][c.endpoint] = IF until > old THEN until ELSE old],
                 p, in)

\* ------------------------------------------------- doGET: the first response
\* case status != 200 that goes on with the loop (what C27 rests on).
otherStatus_continues(F, p, id, resp, in) ==
    continue([F EXCEPT !.accounts[id] =
                 IF resp.vote THEN DeactivateItem(RecordFailure(@))
                 ELSE RecordFailure(@)], p, in)

\* case status != 200: RecordFailure, DeactivateItem when it votes so, return.
otherStatus(F, p, id, resp, in) ==
    finish([F EXCEPT !.accounts[id] =
               IF resp.vote THEN DeactivateItem(RecordFailure(@))
               ELSE RecordFailure(@)], p, "error")

\* The cases errBanned, errSuspended and default with every cooldown the
\* one of cfg.AuthCooldown (what C28 rests on).
accountError_oneCooldown(F, p, id, class, in) ==
    continue([F EXCEPT !.accounts[id] = SoftDeactivate(@, AuthCooldown)], p, in)

\* The cases errBanned, errSuspended and default (errBlocked,
\* errNotAuthorized) of an HTTP 200.
accountError(F, p, id, class, in) ==
    CASE class = errBanned ->
            continue([F EXCEPT !.accounts[id] = SoftDeactivate(@, BanCooldown)], p, in)
      [] class = errSuspended ->
            continue([F EXCEPT !.accounts[id] = DeactivateItem(@)], p, in)
      [] OTHER ->
            continue([F EXCEPT !.accounts[id] = SoftDeactivate(@, AuthCooldown)], p, in)

\* case errLocked that tries the relogin whatever the configuration (what
\* C29 rests on).
accountLocked_alwaysRelogin(F, p, id, in) == relogin(F, p, id, "locked", in)

\* case errLocked of an HTTP 200.
accountLocked(F, p, id, in) ==
    IF cfg.CaptchaSolver THEN relogin(F, p, id, "locked", in)
    ELSE continue([F EXCEPT !.accounts[id] = SoftDeactivate(@, BanCooldown)], p, in)

\* case errInternal that takes every 131 for a success (what C30 rests on).
internalError_alwaysSuccess(W, A, p, id, resp, in) == success(A, p, id)

\* case errInternal of an HTTP 200; A is W after the ct0 adoption.
internalError(W, A, p, id, resp, in) ==
    IF hasResponseData(resp.body) THEN success(A, p, id) ELSE continue(W, p, in)

doGETResponse(W0, p, resp, in) ==
    LET c == W0.calls[p]
        id == c.acc
        W == [W0 EXCEPT !.accounts[id] = resetProxyConsecFails(@)]
        F == recordAPICall(W, p, FALSE, FALSE)
        class == classifyError(resp.body)
        newCT0 == extractCT0FromHeaders(resp.cookie)
        A == IF newCT0 # 0 /\ newCT0 # c.ct0 THEN adoptCT0(W, id, newCT0) ELSE W
    IN  IF resp.err # "nil" THEN transportError(W0, p, id, resp, in)
        ELSE IF resp.status = 429 THEN rateLimited(W, p, id, resp, in)
        ELSE IF resp.status \in {401, 403} THEN
            CASE class = errCSRF -> csrfRetry(F, p, id, "csrf401", in)
              [] class = errAuthExpired -> relogin(F, p, id, "auth401", in)
              [] OTHER -> continue([F EXCEPT !.accounts[id] = RecordFailure(@)], p, in)
        ELSE IF resp.status # 200 THEN otherStatus(F, p, id, resp, in)
        ELSE
            CASE class = errNone -> success(A, p, id)
              [] class = errCSRF -> csrfRetry(W, p, id, "csrf200", in)
              [] class = errAuthExpired -> relogin(W, p, id, "auth200", in)
              [] class = errInternal -> internalError(W, A, p, id, resp, in)
              [] class = errLocked -> accountLocked(F, p, id, in)
              [] OTHER -> accountError(F, p, id, class, in)

\* doGET: the response to an inline re-send (CSRF retry, post-relogin request).
doGETRetryResponse(W, p, resp, in) ==
    LET c == W.calls[p]
        id == c.acc
        ok200 == resp.err = "nil" /\ resp.status = 200
        newCT0 == extractCT0FromHeaders(resp.cookie)
        A == IF newCT0 # 0 THEN adoptCT0(W, id, newCT0) ELSE W
    IN  CASE c.stage = "csrf401" ->
                IF ok200 THEN success(A, p, id)
                ELSE continue([W EXCEPT !.accounts[id] = RecordFailure(@)], p, in)
          [] c.stage = "csrf200" ->
                IF ok200 /\ classifyError(resp.body) = errNone THEN success(A, p, id)
                ELSE continue(W, p, in)
          [] c.stage = "locked" ->
                IF ok200 THEN success(W, p, id)
                ELSE continue([W EXCEPT !.accounts[id] = SoftDeactivate(@, BanCooldown)],
                              p, in)
          [] OTHER ->
                IF ok200 THEN success(W, p, id)
                ELSE continue([W EXCEPT !.accounts[id] = SoftDeactivate(@, AuthCooldown)],
                              p, in)

\* ------------------------------------------------ doPOST: the first response
doPOSTResponse(W0, p, resp, in) ==
    LET c == W0.calls[p]
        id == c.acc
        W == [W0 EXCEPT !.accounts[id] = resetProxyConsecFails(@)]
        F == recordAPICall(W, p, FALSE, FALSE)
        class == classifyError(resp.body)
        newCT0 == extractCT0FromHeaders(resp.cookie)
        A == IF newCT0 # 0 /\ newCT0 # c.ct0 THEN adoptCT0(W, id, newCT0) ELSE W
    IN  IF resp.err # "nil" THEN transportError(W0, p, id, resp, in)
        ELSE IF resp.status = 429 THEN rateLimited(W, p, id, resp, in)
        ELSE IF resp.status \in {401, 403} THEN
            CASE class = errCSRF -> csrfRetry(F, p, id, "csrf401", in)
              [] class = errAuthExpired -> relogin(F, p, id, "auth401", in)
              [] OTHER -> finish([F EXCEPT !.accounts[id] = RecordFailure(@)], p, "error")
        ELSE IF resp.status # 200 THEN
            finish([F EXCEPT !.accounts[id] = RecordFailure(@)], p, "error")
        ELSE
            CASE class = errNone -> success(A, p, id)
              [] class = errCSRF -> csrfRetry(W, p, id, "csrf200", in)
              [] OTHER -> finish([F EXCEPT !.accounts[id] = RecordFailure(@)], p, "error")

\* doPOST: the response to an inline re-send.
doPOSTRetryResponse(W, p, resp, in) ==
    LET c == W.calls[p]
        id == c.acc
        ok2xx == resp.err = "nil" /\ resp.status \in {200, 201}
    IN  CASE c.stage = "csrf401" ->
                IF ok2xx THEN success(W, p, id)
                ELSE continue([W EXCEPT !.accounts[id] = RecordFailure(@)], p, in)
          [] c.stage = "csrf200" ->
                IF ok2xx /\ classifyError(resp.body) = errNone THEN success(W, p, id)
                ELSE continue(W, p, in)
          [] OTHER ->
                IF ok2xx THEN success(W, p, id) ELSE continue(W, p, in)

\* ------------------------------------------------------ doGET: the guest path
\* acquireGuestToken: the answer to one activate request.
acquireResponse(W, p, ok, token, in) ==
    LET c == W.calls[p]
        first == c.pc = "acquire"
        W1 == [W EXCEPT !.calls[p].acqAttempt = @ + 1]
    IN  IF ok
        THEN sendGuest([W EXCEPT !.guest = setGuestToken(@, token)], p, token, in,
                       IF first THEN "guestSent" ELSE "guestRetry")
        ELSE IF W1.calls[p].acqAttempt < guestAttempts
        THEN [W1 EXCEPT !.calls[p].pc = IF first THEN "acquireBackoff"
                                         ELSE "reacquireBackoff"]
        ELSE IF first THEN finish(W1, p, "error")
        ELSE finish(recordAPICall(W1, p, FALSE, FALSE), p, "error")

\* acquireGuestToken: the backoff sleep before attempts 1 and 2.
acquireWake(W, p) ==
    LET c == W.calls[p]
        first == c.pc = "acquireBackoff"
    IN  IF c.cancelled
        THEN IF first
             THEN finish(W, p, IF c.lastErr THEN "error" ELSE "ctxErr")
             ELSE finish(recordAPICall(W, p, FALSE, FALSE), p, "ctxErr")
        ELSE sendActivate(W, p, IF first THEN "acquire" ELSE "reacquire")

\* The response to the request sent with the guest token.
guestResponse(W, p, resp, in) ==
    LET c == W.calls[p]
        first == c.pc = "guestSent"
        F == recordAPICall(W, p, FALSE, FALSE)
        S == recordAPICall(W, p, TRUE, FALSE)
    IN  IF resp.err # "nil" THEN finish(W, p, "error")
        ELSE IF first /\ resp.status = 429
        THEN finish([recordAPICall(W, p, FALSE, TRUE) EXCEPT
                        !.guest = markGuestTokenRateLimited(
                                      @, parseRateLimitReset(resp.reset, now))],
                    p, "error")
        ELSE IF first /\ resp.status \in {401, 403}
        THEN sendActivate([W EXCEPT !.guest = setGuestToken(@, 0),
                                    !.calls[p].acqAttempt = 0], p, "reacquire")
        ELSE IF resp.status # 200 THEN finish(F, p, "error")
        ELSE finish(S, p, "body")


\* --------------------------------------------------------------------- Init

\* An account as NewClient leaves it.  "login": ParseAccounts, then loadOrLogin
\* succeeded (credentials set, session on disk).  "failed": loadOrLogin failed
\* and NewClient called SetActive(false).  "open": loginOpenAccount (no
\* password, no proxy, ct0RefreshedAt left zero, nothing on disk).
NewAccount(origin, password, proxy) ==
    [Password |-> password /\ origin # "open",
     Proxy |-> proxy /\ origin # "open",
     AuthToken |-> IF origin = "failed" THEN 0 ELSE 1,
     CT0 |-> IF origin = "failed" THEN 0 ELSE 1,
     active |-> origin # "failed",
     reactivateAt |-> 0,
     ct0RefreshedAt |-> IF origin = "login" THEN 1 ELSE 0,
     proxyBackoff |-> 0,
     proxyConsecFails |-> 0,
     rateLimiter |-> NewLimiter,
     total |-> 0, failed |-> 0, consec |-> 0]

NewSession(origin) ==
    IF origin = "login" THEN [AuthToken |-> 1, CT0 |-> 1, SavedAt |-> 1] ELSE NoSession

\* The configurations explored.  Account 1 has a password and a proxy and
\* logged in; the other accounts have neither and logged in from a saved
\* session (origin "login"), failed to, or are open accounts.  items tells
\* whether cfg.Accounts is the pool or the pool is empty, xtid whether
\* Manager.Initialize succeeded in NewClient, captcha whether cfg.CaptchaSolver
\* is set.
Configuration(origin, items, xtid, captcha) ==
    [origin |-> origin, items |-> items, xtid |-> xtid, captcha |-> captcha]

Configurations ==
    {Configuration("login", TRUE, TRUE, FALSE),
     Configuration("failed", TRUE, TRUE, TRUE),
     Configuration("open", TRUE, FALSE, FALSE),
     Configuration("login", FALSE, TRUE, FALSE)}

RECURSIVE seqOf(_)
seqOf(n) == IF n = 0 THEN <<>> ELSE Append(seqOf(n - 1), n)

\* The executor as NewClient leaves it in configuration k.
ExecInit(k) ==
    /\ now = 1
    /\ LET origin(id) == IF id = 1 THEN "login" ELSE k.origin
        IN  /\ accounts = [id \in Accounts |-> NewAccount(origin(id), id = 1, id = 1)]
            /\ sessions = [id \in Accounts |-> NewSession(origin(id))]
            /\ pool = [items |-> IF k.items THEN seqOf(NumAccounts) ELSE <<>>,
                       cursor |-> 0]
            /\ xtidMgr = [ct |-> k.xtid, lastRefresh |-> IF k.xtid THEN 1 ELSE 0]
            /\ cfg = [CaptchaSolver |-> k.captcha]
    /\ guest = [guestToken |-> 0, guestLimitedUntil |-> 0]
    /\ calls = [p \in Procs |-> IdleCall]
    /\ lastReq = NoReq
    /\ lastResp = NoResp
    /\ lastRelogin = NoRelogin
    /\ reset429 = [id \in Accounts |-> [e \in Endpoints |-> 0]]
    /\ sendTimes = [id \in Accounts |-> [e \in Endpoints |-> <<>>]]
    /\ nReq = 0
    /\ nRare = 0
    /\ nCalls = 0

Init ==
    /\ \E k \in Configurations : ExecInit(k)
    /\ login = Off
    /\ xt = Off
    /\ unit = Off

\* ------------------------------------------------------------------ actions
\* The random and network inputs of one step: the value GenerateCT0 draws and
\* the outcome of Manager.Initialize when GenerateID refreshes.
Inputs ==
    [fresh : CT0Values, initOk : IF xtidNeedRefresh(xtidMgr) THEN BOOLEAN ELSE {TRUE}]

\* The clock ticks while no request is in flight: a round trip is far
\* shorter than a tick.
Asleep(p) ==
    calls[p].pc \in {"idle", "done", "jitter", "backoff", "wait",
                     "acquireBackoff", "reacquireBackoff"}

\* The run is over when no request may be sent any more and nobody waits
\* for time to pass.
Live == nReq < MaxReq \/ \E p \in Procs : calls[p].pc = "wait"

Tick ==
    /\ now < MaxTime
    /\ Live
    /\ \A p \in Procs : Asleep(p)
    /\ now' = now + 1
    /\ lastReq' = NoReq
    /\ lastResp' = NoResp
    /\ lastRelogin' = NoRelogin
    /\ reset429' = [id \in Accounts |-> [e \in Endpoints |->
                        IF reset429[id][e] > now + 1 THEN reset429[id][e] ELSE 0]]
    /\ sendTimes' = [id \in Accounts |-> [e \in Endpoints |->
                        SelectSeq(sendTimes[id][e],
                                  LAMBDA t : t > now + 1 - WindowDuration)]]
    /\ accounts' = [id \in Accounts |->
                        [accounts[id] EXCEPT !.rateLimiter = limiterAt(@, now + 1)]]
    /\ UNCHANGED <<sessions, pool, guest, xtidMgr, cfg, calls, nReq, nRare, nCalls>>
    /\ UNCHANGED unitVars

StartCall(p, kind, endpoint, id) ==
    /\ calls[p].pc \in {"idle", "done"}
    /\ nCalls < MaxCalls
    /\ nCalls' = nCalls + 1
    /\ calls' = [calls EXCEPT ![p] = [IdleCall EXCEPT !.pc = "jitter", !.kind = kind,
                                                      !.endpoint = endpoint, !.acc = id]]
    /\ lastReq' = NoReq
    /\ lastResp' = NoResp
    /\ lastRelogin' = NoRelogin
    /\ UNCHANGED <<now, accounts, sessions, pool, guest, xtidMgr, cfg,
                   reset429, sendTimes, nReq, nRare>>
    /\ UNCHANGED unitVars

\* c.doGET(ctx, endpoint, url) is called.
CallGET(p) == \E e \in GetEndpoints : StartCall(p, "GET", e, NoAccount)

\* c.doPOST(ctx, acc, endpoint, url, payload) is called.
CallPOST(p) ==
    \E e \in PostEndpoints, i \in 1..Len(pool.items) :
        /\ IsActive(accounts[pool.items[i]])
        /\ StartCall(p, "POST", e, pool.items[i])

\* The caller cancels the context of a running call.
Cancel(p) ==
    /\ calls[p].pc \notin {"idle", "done"}
    /\ ~calls[p].cancelled
    /\ calls' = [calls EXCEPT ![p].cancelled = TRUE]
    /\ lastReq' = NoReq
    /\ lastResp' = NoResp
    /\ lastRelogin' = NoRelogin
    /\ UNCHANGED <<now, accounts, sessions, pool, guest, xtidMgr, cfg,
                   reset429, sendTimes, nReq, nRare, nCalls>>
    /\ UNCHANGED unitVars

\* stealth.DefaultJitter.Sleep(ctx) returns, then attempt 0 runs.
JitterWake(p) ==
    /\ calls[p].pc = "jitter"
    /\ \E in \in Inputs :
        Commit(IF calls[p].cancelled THEN finish(World, p, "ctxErr")
               ELSE attemptBody(World, p, in))

\* The backoff select of attempts 1 and 2 returns, then the attempt runs.
BackoffWake(p) ==
    /\ calls[p].pc = "backoff"
    /\ \E in \in Inputs :
        Commit(IF calls[p].cancelled THEN finish(World, p, "ctxErr")
               ELSE attemptBody(World, p, in))

\* pool.NextWithWait returns: an item became eligible, the wait is over, or the
\* context was cancelled.
WaitWake(p) ==
    LET c == calls[p]
        s == poolNext(accounts, pool, c.endpoint)
        W1 == [World EXCEPT !.accounts = s.accounts, !.pool.cursor = s.cursor]
        X == [World EXCEPT !.calls[p].exhausted = TRUE, !.calls[p].lastErr = TRUE]
    IN  /\ c.pc = "wait"
        /\ c.cancelled \/ s.found # NoAccount \/ now >= c.waitUntil
        /\ \E in \in Inputs :
            Commit(IF c.cancelled
                   THEN finish([X EXCEPT !.calls[p].ended = TRUE], p, "ctxErr")
                   ELSE IF s.found # NoAccount
                   THEN afterSelect([W1 EXCEPT !.calls[p].acc = s.found], p, s.found, in)
                   ELSE afterLoop([X EXCEPT !.accounts = s.accounts], p, in))

GetResponse(p) ==
    /\ calls[p].pc = "sent" /\ calls[p].kind = "GET"
    /\ \E resp \in Responses, in \in Inputs :
        /\ resp \in PlainResponses \/ nRare < MaxRare
        /\ Commit(doGETResponse(Received(p, resp), p, resp, in))

GetRetryResponse(p) ==
    /\ calls[p].pc = "retry" /\ calls[p].kind = "GET"
    /\ \E resp \in Responses, in \in Inputs :
        /\ resp \in PlainResponses \/ nRare < MaxRare
        /\ Commit(doGETRetryResponse(Received(p, resp), p, resp, in))

PostResponse(p) ==
    /\ calls[p].pc = "sent" /\ calls[p].kind = "POST"
    /\ \E resp \in Responses, in \in Inputs :
        /\ resp \in PlainResponses \/ nRare < MaxRare
        /\ Commit(doPOSTResponse(Received(p, resp), p, resp, in))

PostRetryResponse(p) ==
    /\ calls[p].pc = "retry" /\ calls[p].kind = "POST"
    /\ \E resp \in Responses, in \in Inputs :
        /\ resp \in PlainResponses \/ nRare < MaxRare
        /\ Commit(doPOSTRetryResponse(Received(p, resp), p, resp, in))

LoginToken(p) ==
    /\ calls[p].pc = "loginToken"
    /\ \E ok \in BOOLEAN, token \in GuestTokens, in \in Inputs :
        Commit(loginToken(World, p, ok, token, in))

ReloginDone(p) ==
    /\ calls[p].pc = "relogin"
    /\ \E loginOk \in BOOLEAN, cookie \in {0} \cup CT0Values, in \in Inputs :
        Commit(reloginDone(World, p, loginOk, cookie, in))

AcquireResponse(p) ==
    /\ calls[p].pc \in {"acquire", "reacquire"}
    /\ \E ok \in BOOLEAN, token \in GuestTokens, in \in Inputs :
        Commit(acquireResponse(World, p, ok, token, in))

AcquireWake(p) ==
    /\ calls[p].pc \in {"acquireBackoff", "reacquireBackoff"}
    /\ Commit(acquireWake(World, p))

GuestResponse(p) ==
    /\ calls[p].pc \in {"guestSent", "guestRetry"}
    /\ \E resp \in Responses, in \in Inputs :
        /\ resp \in PlainResponses \/ nRare < MaxRare
        /\ Commit(guestResponse(Received(p, resp), p, resp, in))

Step(p) ==
    \/ CallGET(p)
    \/ CallPOST(p)
    \/ Cancel(p)
    \/ JitterWake(p)
    \/ BackoffWake(p)
    \/ WaitWake(p)
    \/ GetResponse(p)
    \/ GetRetryResponse(p)
    \/ PostResponse(p)
    \/ PostRetryResponse(p)
    \/ LoginToken(p)
    \/ ReloginDone(p)
    \/ AcquireResponse(p)
    \/ AcquireWake(p)
    \/ GuestResponse(p)

Next == Tick \/ \E p \in Procs : Step(p)

Spec == Init /\ [][Next]_vars

\* ------------------------------------------------- the CSRF recovery scenario
\* The executor against a server that answers the first request of every
\* attempt with code 353 and the re-sent request with anything.  These runs
\* are not charged to the budget of rare events, so that a CSRF answer, a
\* repeated draw of GenerateCT0 and a Set-Cookie on the second answer can
\* meet in one call.
CSRFResponses ==
    {resp \in Responses : /\ resp.err = "nil"
                          /\ resp.status \in {200, 401, 403}
                          /\ classifyError(resp.body) = errCSRF}

Uncharged(W) == [W EXCEPT !.nRare = 0]

CSRFResponse(p) ==
    /\ calls[p].pc = "sent"
    /\ \E resp \in CSRFResponses, in \in Inputs :
        Commit(Uncharged(IF calls[p].kind = "GET"
                         THEN doGETResponse(Received(p, resp), p, resp, in)
                         ELSE doPOSTResponse(Received(p, resp), p, resp, in)))

CSRFRetryResponse(p) ==
    /\ calls[p].pc = "retry"
    /\ \E resp \in Responses, in \in Inputs :
        Commit(Uncharged(IF calls[p].kind = "GET"
                         THEN doGETRetryResponse(Received(p, resp), p, resp, in)
                         ELSE doPOSTRetryResponse(Received(p, resp), p, resp, in)))

InitCSRF ==
    /\ ExecInit(Configuration("login", TRUE, TRUE, FALSE))
    /\ login = Off
    /\ xt = Off
    /\ unit = Off

NextCSRF ==
    \E p \in Procs :
        \/ CallGET(p)
        \/ CallPOST(p)
        \/ JitterWake(p)
        \/ BackoffWake(p)
        \/ CSRFResponse(p)
        \/ CSRFRetryResponse(p)

SpecCSRF == InitCSRF /\ [][NextCSRF]_vars

\* ------------------------------------------------- the guest-token scenario
\* doGET on a client without accounts: every call goes to the guest-token
\* fallback.  These runs are charged neither to the budget of rare events
\* nor to the budget of requests, so that two calls can each acquire a
\* token, be refused and re-send.
Unmetered(W) == [W EXCEPT !.nRare = 0, !.nReq = 0]

GuestAcquireResponse(p) ==
    /\ calls[p].pc \in {"acquire", "reacquire"}
    /\ \E ok \in BOOLEAN, token \in GuestTokens, in \in Inputs :
        Commit(Unmetered(acquireResponse(World, p, ok, token, in)))

GuestAcquireWake(p) ==
    /\ calls[p].pc \in {"acquireBackoff", "reacquireBackoff"}
    /\ Commit(Unmetered(acquireWake(World, p)))

GuestRequestResponse(p) ==
    /\ calls[p].pc \in {"guestSent", "guestRetry"}
    /\ \E resp \in Responses, in \in Inputs :
        Commit(Unmetered(guestResponse(Received(p, resp), p, resp, in)))

InitGuest ==
    /\ ExecInit(Configuration("login", FALSE, TRUE, FALSE))
    /\ login = Off
    /\ xt = Off
    /\ unit = Off

NextGuest ==
    \/ Tick
    \/ \E p \in Procs :
        \/ CallGET(p)
        \/ JitterWake(p)
        \/ GuestAcquireResponse(p)
        \/ GuestAcquireWake(p)
        \/ GuestRequestResponse(p)

SpecGuest == InitGuest /\ [][NextGuest]_vars


\* ============================================================ Client.login
\* One run of login(acc, client), as relogin and NewClient start it: the
\* account holds no credentials; the client's cookie jar is empty or still
\* holds the auth_token cookie of an earlier login on the same client.
loginRounds == 10

\* fr.Subtasks[0].SubtaskID of a flow response; NoSubtasks: an empty list.
NoSubtasks == "none"
CaptchaSubtasks == {"LoginArkoseChallenge", "LoginArkoseCaptcha", "LoginEnterRecaptcha"}
TerminalSubtasks == {"LoginSuccessSubtask", "AccountDuplicationCheck", "DenyLoginSubtask"}
Subtasks ==
    {"LoginJsInstrumentationSubtask", "LoginEnterUserIdentifierSSO",
     "LoginEnterPassword", "LoginArkoseChallenge", "LoginTwoFactorAuthChallenge",
     "LoginEnterAlternateIdentifierSubtask", "SomeOtherSubtask", NoSubtasks}
        \cup TerminalSubtasks

\* The cookie values of the jar: 0 no cookie, 1 the cookie of the earlier
\* login, 2 a cookie set during this flow.
StaleCookie == 1
FlowCookie == 2

NewLogin(jar, solver, totp) ==
    [pc |-> "guestToken", round |-> 0, subtask |-> NoSubtasks,
     jar |-> jar, jarCT0 |-> jar, solver |-> solver, totp |-> totp,
     acc |-> SetCredentials(NewAccount("failed", TRUE, FALSE), 0, 0),
     err |-> FALSE, terminal |-> FALSE, nSubmits |-> 0]

\* return fmt.Errorf(...)
loginFail(l) == [l EXCEPT !.pc = "returned", !.err = TRUE]

\* done: the cookies are read from the jar, a missing ct0 is generated, and
\* the credentials are set unless there is no auth_token cookie.
loginDone(l, fresh) ==
    LET authToken == l.jar
        ct0 == IF l.jarCT0 # 0 THEN l.jarCT0 ELSE fresh
    IN  IF authToken = 0 THEN loginFail(l)
        ELSE [l EXCEPT !.pc = "returned", !.acc = SetCredentials(@, authToken, ct0)]

\* The for statement's condition, then the head of the body.
loginLoop(l, fresh) ==
    IF l.round >= loginRounds \/ l.subtask = NoSubtasks THEN loginDone(l, fresh)
    ELSE [l EXCEPT !.pc = "round"]

\* A submit step returned: err, or the next flow response; the response may
\* have set the auth_token cookie.  Then round++ and the loop condition.
loginSubmitted(l, err, next, cookie, fresh) ==
    LET l1 == [l EXCEPT !.jar = IF cookie # 0 THEN cookie ELSE @,
                        !.nSubmits = @ + 1]
    IN  IF err THEN loginFail(l1)
        ELSE loginLoop([l1 EXCEPT !.round = @ + 1, !.subtask = next], fresh)

\* One round of the loop: the switch on the subtask.
loginRound(l, err, next, cookie, solveOk, fresh) ==
    CASE l.subtask \in CaptchaSubtasks ->
            IF ~l.solver \/ ~solveOk THEN loginFail(l)
            ELSE loginSubmitted(l, err, next, cookie, fresh)
      [] l.subtask = "LoginTwoFactorAuthChallenge" ->
            IF l.totp # "ok" THEN loginFail(l)
            ELSE loginSubmitted(l, err, next, cookie, fresh)
      [] l.subtask \in {"LoginSuccessSubtask", "AccountDuplicationCheck"} ->
            loginDone([l EXCEPT !.terminal = TRUE], fresh)
      [] l.subtask = "DenyLoginSubtask" ->
            loginFail([l EXCEPT !.terminal = TRUE])
      [] OTHER -> loginSubmitted(l, err, next, cookie, fresh)

\* getGuestToken returned.
LoginGuestToken ==
    /\ login.pc = "guestToken"
    /\ \E ok \in BOOLEAN :
        login' = IF ok THEN [login EXCEPT !.pc = "initFlow"] ELSE loginFail(login)
    /\ UNCHANGED <<execVars, xt, unit>>

\* initLoginFlowFull returned.
LoginInitFlow ==
    /\ login.pc = "initFlow"
    /\ \E err \in BOOLEAN, next \in Subtasks, fresh \in CT0Values :
        login' = IF err THEN loginFail(login)
                 ELSE loginLoop([login EXCEPT !.subtask = next], fresh)
    /\ UNCHANGED <<execVars, xt, unit>>

LoginRound ==
    /\ login.pc = "round"
    /\ \E err, solveOk \in BOOLEAN, next \in Subtasks, cookie \in {0, FlowCookie},
          fresh \in CT0Values :
        login' = loginRound(login, err, next, cookie, solveOk, fresh)
    /\ UNCHANGED <<execVars, xt, unit>>

InitLogin ==
    /\ ExecInit(Configuration("login", FALSE, TRUE, FALSE))
    /\ xt = Off
    /\ unit = Off
    /\ \E jar \in {0, StaleCookie}, solver \in BOOLEAN, totp \in {"", "bad", "ok"} :
        login = NewLogin(jar, solver, totp)

NextLogin == LoginGuestToken \/ LoginInitFlow \/ LoginRound

SpecLogin == InitLogin /\ [][NextLogin]_vars


\* ====================================================== Client.loadOrLogin
\* One call of loadOrLogin(acc, client) at time now = 1: the account as
\* ParseAccounts or relogin hands it over (tokens provided or empty, with or
\* without password), and <username>.json absent, unreadable, or saved 0, 24
\* or 28 hours ago with or without each token.
ProvidedTokens == {0, 1, 2}
DiskToken == 3
LoginCookie == 4
SessionFiles ==
    {NoSession} \cup
    [AuthToken : {0, DiskToken}, CT0 : {0, DiskToken},
     SavedAt : {1 - SessionTTL - 1, 1 - SessionTTL, 1}]

LoadOrLoginCall(authToken, v, password, file, corrupt) ==
    [pc |-> "loadOrLogin",
     acc0 |-> [NewAccount("login", password, FALSE) EXCEPT
                  !.AuthToken = authToken, !.CT0 = v, !.ct0RefreshedAt = 0],
     file0 |-> file, corrupt |-> corrupt,
     acc |-> [NewAccount("login", password, FALSE) EXCEPT
                  !.AuthToken = authToken, !.CT0 = v, !.ct0RefreshedAt = 0],
     sess |-> [id \in {1} |-> file], err |-> FALSE, nLogin |-> 0]

\* loadOrLogin runs up to its return or to the call of login.
LoadOrLogin ==
    /\ unit.pc = "loadOrLogin"
    /\ LET r == loadOrLogin(unit.acc, unit.sess, 1, unit.corrupt)
       IN  unit' = [unit EXCEPT !.pc = IF r.login THEN "login" ELSE "loaded",
                                !.acc = r.acc, !.sess = r.sessions, !.err = r.err,
                                !.nLogin = IF r.login THEN 1 ELSE 0]
    /\ UNCHANGED <<execVars, login, xt>>

\* login returned, and loadOrLogin with it.
LoadOrLoginReturns ==
    /\ unit.pc = "login"
    /\ \E loginOk \in BOOLEAN, v \in CT0Values :
        LET r == loadOrLoginAfterLogin(unit.acc, unit.sess, 1, loginOk, LoginCookie, v)
        IN  unit' = [unit EXCEPT !.pc = "loaded", !.acc = r.acc, !.sess = r.sessions,
                                 !.err = r.err]
    /\ UNCHANGED <<execVars, login, xt>>

InitLoad ==
    /\ ExecInit(Configuration("login", FALSE, TRUE, FALSE))
    /\ login = Off
    /\ xt = Off
    /\ \E authToken, v \in ProvidedTokens, password \in BOOLEAN,
          file \in SessionFiles, corrupt \in BOOLEAN :
        /\ corrupt => file # NoSession
        /\ unit = LoadOrLoginCall(authToken, v, password, file, corrupt)

NextLoad == LoadOrLogin \/ LoadOrLoginReturns

SpecLoad == InitLoad /\ [][NextLoad]_vars


\* ============================================== saveSession / loadSession
\* The session files byte by byte.  A token is a Go string: a sequence of
\* bytes, here the letter "a" and a byte that is no valid UTF-8 ("\xff").
\* json.Marshal coerces a string to valid UTF-8 by replacing such bytes with
\* U+FFFD; json.Unmarshal gives back what the file holds.
BadByte == "\\xff"
ReplacementChar == "\\ufffd"
TokenBytes == {"a", BadByte}
Strings == UNION {[1..n -> TokenBytes] : n \in 0..MaxLen}
EmptyString == <<>>

jsonMarshalString(str) ==
    [i \in 1..Len(str) |-> IF str[i] = BadByte THEN ReplacementChar ELSE str[i]]

jsonUnmarshalString(text) == text

\* Usernames: two plain ones, and one with a path separator in it.
Usernames == {<<"u">>, <<"v">>, <<"u", "/", "v">>}
NoFile == [exists |-> FALSE]

\* sessionPath(dir, username) = filepath.Join(dir, username+".json"): the
\* file lies in dir, which MkdirAll has created, unless the username has a
\* separator in it; then it lies in a directory nobody has created.
sessionPathInDir(username) == \A i \in 1..Len(username) : username[i] # "/"

\* saveSession(dir, username, authToken, ct0) at time t.
saveSessionFile(files, username, authToken, v, t) ==
    IF ~sessionPathInDir(username) THEN [files |-> files, err |-> TRUE]
    ELSE [files |-> [files EXCEPT ![username] =
                        [exists |-> TRUE,
                         auth_token |-> jsonMarshalString(authToken),
                         ct0 |-> jsonMarshalString(v),
                         saved_at |-> t]],
          err |-> FALSE]

\* loadSession that takes a file for expired when exactly the TTL has passed
\* (what C15 rests on).
loadSessionFile_expiresAtTTL(files, username, ttl, t) ==
    LET f == files[username]
    IN  IF ~f.exists \/ t - f.saved_at >= ttl
        THEN [authToken |-> EmptyString, ct0 |-> EmptyString, err |-> FALSE]
        ELSE [authToken |-> jsonUnmarshalString(f.auth_token),
              ct0 |-> jsonUnmarshalString(f.ct0), err |-> FALSE]

\* loadSession(dir, username, ttl) at time t.
loadSessionFile(files, username, ttl, t) ==
    LET f == files[username]
    IN  IF ~f.exists
        THEN [authToken |-> EmptyString, ct0 |-> EmptyString, err |-> FALSE]
        ELSE IF t - f.saved_at > ttl
        THEN [authToken |-> EmptyString, ct0 |-> EmptyString, err |-> FALSE]
        ELSE [authToken |-> jsonUnmarshalString(f.auth_token),
              ct0 |-> jsonUnmarshalString(f.ct0), err |-> FALSE]

NoSave == [saved |-> FALSE]
NoLoad == [loaded |-> FALSE]

\* The session directory, empty, at time 0.  saved is the history of the
\* latest saveSession call per username, lastLoad the loadSession call of
\* the latest step and what it returned.
NewSessionStore ==
    [pc |-> "session", files |-> [u \in Usernames |-> NoFile], clock |-> 0,
     saved |-> [u \in Usernames |-> NoSave], nSaves |-> 0, lastLoad |-> NoLoad]

SaveSession ==
    /\ unit.pc = "session"
    /\ unit.nSaves < MaxSaves
    /\ \E u \in Usernames, authToken, v \in Strings :
        LET r == saveSessionFile(unit.files, u, authToken, v, unit.clock)
        IN  unit' = [unit EXCEPT
                        !.files = r.files,
                        !.saved[u] = [saved |-> TRUE, authToken |-> authToken,
                                      ct0 |-> v, at |-> unit.clock, err |-> r.err],
                        !.nSaves = @ + 1,
                        !.lastLoad = NoLoad]
    /\ UNCHANGED <<execVars, login, xt>>

LoadSession ==
    /\ unit.pc = "session"
    /\ \E u \in Usernames :
        LET r == loadSessionFile(unit.files, u, TestTTL, unit.clock)
        IN  unit' = [unit EXCEPT
                        !.lastLoad = [loaded |-> TRUE, username |-> u,
                                      authToken |-> r.authToken, ct0 |-> r.ct0,
                                      err |-> r.err]]
    /\ UNCHANGED <<execVars, login, xt>>

SessionTick ==
    /\ unit.pc = "session"
    /\ unit.clock < MaxClock
    /\ unit' = [unit EXCEPT !.clock = @ + 1, !.lastLoad = NoLoad]
    /\ UNCHANGED <<execVars, login, xt>>

InitSession ==
    /\ ExecInit(Configuration("login", FALSE, TRUE, FALSE))
    /\ login = Off
    /\ xt = Off
    /\ unit = NewSessionStore

NextSession == SaveSession \/ LoadSession \/ SessionTick

SpecSession == InitSession /\ [][NextSession]_vars


\* ============================================================ xtid.Manager
\* The manager statement by statement, with its RWMutex: xt.ct is the pointer
\* m.ct (0: nil, n: the n-th ClientTransaction built), xt.lastRefresh the
\* field next to it, xt.writer the goroutine holding mu.Lock (0: nobody),
\* xt.readers the goroutines holding mu.RLock.  A ClientTransaction is built
\* by newClientTransaction before it is published and never written again.
Callers == 1..NumCallers

ClientTransaction(n) == [keyBytes |-> n, animationKey |-> n]

IdleCaller ==
    [pc |-> "idle", seenCt |-> 0, seenLast |-> 0, ct |-> 0, initErr |-> FALSE,
     hasOld |-> FALSE, result |-> [err |-> FALSE, state |-> 0]]

NewManager ==
    [pc |-> "manager", ct |-> 0, lastRefresh |-> 0, clock |-> 1, writer |-> 0,
     readers |-> {}, nBuilt |-> 0, nGen |-> 0,
     installedAt |-> [n \in 1..MaxBuilds |-> 0],
     callers |-> [p \in Callers |-> IdleCaller]]

\* sync.RWMutex: RLock waits while a writer holds the lock, Lock waits while
\* anybody holds it.
canRLock(x) == x.writer = 0

\* Lock that waits for nobody (what C17 rests on).
canLock_noExclusion(x) == TRUE

canLock(x) == x.writer = 0 /\ x.readers = {}

\* Initialize failed before the lock: it returns the error, and nothing was
\* written.
initializeFailed_clearsState(x, p) ==
    [x EXCEPT !.ct = 0, !.lastRefresh = 0,
              !.callers[p].initErr = TRUE, !.callers[p].pc = "hasOld"]

initializeFailed(x, p) ==
    [x EXCEPT !.callers[p].initErr = TRUE, !.callers[p].pc = "hasOld"]

XtUnchanged == UNCHANGED <<execVars, login, unit>>

\* m.GenerateID(method, path) is called.
XtCall(p) ==
    /\ xt.pc = "manager"
    /\ xt.callers[p].pc \in {"idle", "returned"}
    /\ xt.nGen < MaxGen
    /\ xt' = [xt EXCEPT !.nGen = @ + 1,
                        !.callers[p] = [IdleCaller EXCEPT !.pc = "rlock"]]
    /\ XtUnchanged

\* m.mu.RLock()
XtRLock(p) ==
    /\ xt.pc = "manager"
    /\ xt.callers[p].pc = "rlock"
    /\ canRLock(xt)
    /\ xt' = [xt EXCEPT !.readers = @ \cup {p}, !.callers[p].pc = "readCt"]
    /\ XtUnchanged

\* needRefresh := m.ct == nil || ...: the read of m.ct.
XtReadCt(p) ==
    /\ xt.pc = "manager"
    /\ xt.callers[p].pc = "readCt"
    /\ xt' = [xt EXCEPT !.callers[p].seenCt = xt.ct, !.callers[p].pc = "readLast"]
    /\ XtUnchanged

\* ... || time.Since(m.lastRefresh) > m.refreshInterval; m.mu.RUnlock().
XtReadLast(p) ==
    /\ xt.pc = "manager"
    /\ xt.callers[p].pc = "readLast"
    /\ LET needRefresh == \/ xt.callers[p].seenCt = 0
                          \/ xt.clock - xt.lastRefresh >= refreshInterval
       IN  xt' = [xt EXCEPT !.readers = @ \ {p},
                            !.callers[p].seenLast = xt.lastRefresh,
                            !.callers[p].pc = IF needRefresh THEN "fetch" ELSE "rlockGen"]
    /\ XtUnchanged

\* Initialize up to the lock: the two fetches and newClientTransaction.
XtFetch(p) ==
    /\ xt.pc = "manager"
    /\ xt.callers[p].pc = "fetch"
    /\ \/ /\ xt.nBuilt < MaxBuilds
          /\ xt' = [xt EXCEPT !.nBuilt = @ + 1,
                              !.callers[p].ct = xt.nBuilt + 1,
                              !.callers[p].pc = "lock"]
       \/ xt' = initializeFailed(xt, p)
    /\ XtUnchanged

\* m.mu.Lock()
XtLock(p) ==
    /\ xt.pc = "manager"
    /\ xt.callers[p].pc = "lock"
    /\ canLock(xt)
    /\ xt' = [xt EXCEPT !.writer = p, !.callers[p].pc = "writeCt"]
    /\ XtUnchanged

\* m.ct = ct
XtWriteCt(p) ==
    /\ xt.pc = "manager"
    /\ xt.callers[p].pc = "writeCt"
    /\ xt' = [xt EXCEPT !.ct = xt.callers[p].ct, !.callers[p].pc = "writeLast"]
    /\ XtUnchanged

\* m.lastRefresh = time.Now(); m.mu.Unlock(); Initialize returns nil.
XtWriteLast(p) ==
    /\ xt.pc = "manager"
    /\ xt.callers[p].pc = "writeLast"
    /\ xt' = [xt EXCEPT !.lastRefresh = xt.clock,
                        !.installedAt[xt.callers[p].ct] = xt.clock,
                        !.writer = IF @ = p THEN 0 ELSE @,
                        !.callers[p].pc = "rlockGen"]
    /\ XtUnchanged

\* After a failed Initialize: RLock; hasOld := m.ct != nil; RUnlock; the
\* error is returned when there is no old state.
XtHasOld(p) ==
    /\ xt.pc = "manager"
    /\ xt.callers[p].pc = "hasOld"
    /\ canRLock(xt)
    /\ xt' = IF xt.ct # 0
             THEN [xt EXCEPT !.callers[p].hasOld = TRUE, !.callers[p].pc = "rlockGen"]
             ELSE [xt EXCEPT !.callers[p].pc = "returned",
                             !.callers[p].result = [err |-> TRUE, state |-> 0]]
    /\ XtUnchanged

\* m.mu.RLock(); defer m.mu.RUnlock()
XtRLockGen(p) ==
    /\ xt.pc = "manager"
    /\ xt.callers[p].pc = "rlockGen"
    /\ canRLock(xt)
    /\ xt' = [xt EXCEPT !.readers = @ \cup {p}, !.callers[p].pc = "gen"]
    /\ XtUnchanged

\* if m.ct == nil return error; return m.ct.GenerateID(method, path), nil
XtGenerate(p) ==
    /\ xt.pc = "manager"
    /\ xt.callers[p].pc = "gen"
    /\ xt' = [xt EXCEPT
                !.readers = @ \ {p},
                !.callers[p].pc = "returned",
                !.callers[p].result =
                    IF xt.ct = 0 THEN [err |-> TRUE, state |-> 0]
                    ELSE [err |-> FALSE, state |-> xt.ct,
                          keyBytes |-> ClientTransaction(xt.ct).keyBytes,
                          animationKey |-> ClientTransaction(xt.ct).animationKey]]
    /\ XtUnchanged

XtTick ==
    /\ xt.pc = "manager"
    /\ xt.clock < MaxXtClock
    /\ xt' = [xt EXCEPT !.clock = @ + 1]
    /\ XtUnchanged

InitXtid ==
    /\ ExecInit(Configuration("login", FALSE, TRUE, FALSE))
    /\ login = Off
    /\ unit = Off
    /\ xt = NewManager

XtStep(p) ==
    \/ XtCall(p)
    \/ XtRLock(p)
    \/ XtReadCt(p)
    \/ XtReadLast(p)
    \/ XtFetch(p)
    \/ XtLock(p)
    \/ XtWriteCt(p)
    \/ XtWriteLast(p)
    \/ XtHasOld(p)
    \/ XtRLockGen(p)
    \/ XtGenerate(p)

NextXtid == XtTick \/ \E p \in Callers : XtStep(p)

SpecXtid == InitXtid /\ [][NextXtid]_vars


\* ============================================================ classifyError
\* A response body as json.Unmarshal meets it: malformed text (the empty
\* body included), or an object whose errors member is absent, null, of a
\* type that is not an array, or an array.  An entry of the array carries an
\* integer code ("int"), no code at all (code absent or null, entry null:
\* "none"), or something that does not fit `Code int` (a string, a
\* fraction, an entry that is not an object: "bad").
ErrorCodes == {88, 64, 326, 353, 32, 161, 179, 219, 131, 999, 0}

ErrorEntries ==
    {[t |-> "int", v |-> c] : c \in ErrorCodes}
    \cup {[t |-> "none", v |-> 0], [t |-> "bad", v |-> 0], [t |-> "bad", v |-> 88]}

RECURSIVE SeqsUpTo(_, _)
SeqsUpTo(S, n) ==
    IF n = 0 THEN {<<>>}
    ELSE LET shorter == SeqsUpTo(S, n - 1)
         IN  shorter \cup {Append(q, x) : q \in shorter, x \in S}

RawBodies ==
    {[kind |-> "malformed"], [kind |-> "noErrors"], [kind |-> "nullErrors"],
     [kind |-> "errorsNotArray"]}
    \cup {[kind |-> "errors", errors |-> es] : es \in SeqsUpTo(ErrorEntries, MaxErrors)}

\* json.Unmarshal(body, &errResp): a member of the wrong type is skipped and
\* reported as the error once the decoding is over; Code stays 0 where the
\* body gives none.
jsonUnmarshalErrors(raw) ==
    IF raw.kind = "malformed" THEN [json |-> FALSE, codes |-> <<>>, data |-> FALSE]
    ELSE IF raw.kind = "errorsNotArray" THEN [json |-> FALSE, codes |-> <<>>, data |-> FALSE]
    ELSE IF raw.kind \in {"noErrors", "nullErrors"}
    THEN [json |-> TRUE, codes |-> <<>>, data |-> FALSE]
    ELSE [json |-> \A i \in 1..Len(raw.errors) : raw.errors[i].t # "bad",
          codes |-> [i \in 1..Len(raw.errors) |->
                        IF raw.errors[i].t = "int" THEN raw.errors[i].v ELSE 0],
          data |-> FALSE]

classifyErrorBytes(raw) == classifyError(jsonUnmarshalErrors(raw))

ClassifyError ==
    /\ unit.pc = "classifyError"
    /\ Len(unit.results) < MaxClassify
    /\ unit' = [unit EXCEPT !.results = Append(@, classifyErrorBytes(unit.body))]
    /\ UNCHANGED <<execVars, login, xt>>

InitClassify ==
    /\ ExecInit(Configuration("login", FALSE, TRUE, FALSE))
    /\ login = Off
    /\ xt = Off
    /\ \E raw \in RawBodies : unit = [pc |-> "classifyError", body |-> raw, results |-> <<>>]

NextClassify == ClassifyError

SpecClassify == InitClassify /\ [][NextClassify]_vars


\* ================================================ ClientTransaction.GenerateID
\* Strings are sequences of characters; sha256 is taken to be injective (the
\* hash stands for its input), so two tokens are equal exactly when every
\* input of the computation is.
additionalRandomNumber == 3
defaultKeyword == <<"obfiowerehiring">>

PathChars == {"/", "a", "?"}
PathStrings == SeqsUpTo(PathChars, MaxPath)
Methods == {<<"GET">>, <<"POST">>}
SigningStates == {[keyBytes |-> <<k>>, animationKey |-> <<a>>] : k \in {1, 2}, a \in {"k1"}}
hashPrefixLen == 16
Timestamps == {0, 258}
RandomBytes == {0, 1, 2, 3}

\* b ^ randomNum
RECURSIVE xor(_, _)
xor(a, b) ==
    IF a = 0 /\ b = 0 THEN 0
    ELSE (((a % 2) + (b % 2)) % 2) + 2 * xor(a \div 2, b \div 2)

\* GenerateID without the stripping (what C20 rests on).
stripQuery_keep(path) == path

\* if idx := strings.Index(path, "?"); idx >= 0 { path = path[:idx] }
stripQuery(path) ==
    LET marks == {i \in 1..Len(path) : path[i] = "?"}
    IN  IF marks = {} THEN path
        ELSE SubSeq(path, 1, (CHOOSE i \in marks : \A j \in marks : i <= j) - 1)

\* timeNowBytes[i] = byte((timeNow >> (i * 8)) & 0xFF), most significant
\* byte first (what C21 rests on).
timeNowBytes_bigEndian(t) ==
    <<(t \div 16777216) % 256, (t \div 65536) % 256, (t \div 256) % 256, t % 256>>

\* timeNowBytes[i] = byte((timeNow >> (i * 8)) & 0xFF) for i = 0..3
timeNowBytes(t) ==
    <<t % 256, (t \div 256) % 256, (t \div 65536) % 256, (t \div 16777216) % 256>>

\* hash[:16] of sha256.Sum256(hashInput): byte i of the digest is named by the
\* input and i; mask is what has been XOR-ed onto it.
hashBytes(hashInput) ==
    [i \in 1..hashPrefixLen |->
        [known |-> FALSE, v |-> [sha256 |-> hashInput, i |-> i], mask |-> 0]]

\* A byte whose value is known.
byte(n) == [known |-> TRUE, v |-> n, mask |-> 0]

bytes(ns) == [i \in 1..Len(ns) |-> byte(ns[i])]

\* b ^ randomNum for a known byte and for a byte of the digest.
xorByte(b, r) ==
    IF b.known THEN [b EXCEPT !.v = xor(@, r)] ELSE [b EXCEPT !.mask = xor(@, r)]

\* ClientTransaction.GenerateID with time.Now() and rand.Intn(256) as inputs.
\* The result is the byte sequence `out`; its base64 text without padding
\* names the same bytes.
GenerateID(ct, method, path, timeNow, randomNum) ==
    LET p == stripQuery(path)
        hashInput == method \o <<"!">> \o p \o <<"!">> \o <<timeNow>>
                     \o defaultKeyword \o ct.animationKey
        bytesArr == bytes(ct.keyBytes) \o bytes(timeNowBytes(timeNow))
                    \o hashBytes(hashInput) \o <<byte(additionalRandomNumber)>>
    IN  <<byte(randomNum)>> \o [i \in 1..Len(bytesArr) |-> xorByte(bytesArr[i], randomNum)]

NoID == <<>>

GenerateWithQuery ==
    /\ unit.pc = "GenerateID"
    /\ unit.withQuery = NoID
    /\ unit' = [unit EXCEPT !.withQuery =
                    GenerateID(unit.ct, unit.method, unit.path \o <<"?">> \o unit.query,
                               unit.timeNow, unit.randomNum)]
    /\ UNCHANGED <<execVars, login, xt>>

GenerateBare ==
    /\ unit.pc = "GenerateID"
    /\ unit.bare = NoID
    /\ unit' = [unit EXCEPT !.bare =
                    GenerateID(unit.ct, unit.method, unit.path,
                               unit.timeNow, unit.randomNum)]
    /\ UNCHANGED <<execVars, login, xt>>

InitGenerateID ==
    /\ ExecInit(Configuration("login", FALSE, TRUE, FALSE))
    /\ login = Off
    /\ xt = Off
    /\ \E ct \in SigningStates, method \in Methods, path \in PathStrings,
          query \in PathStrings, timeNow \in Timestamps, randomNum \in RandomBytes :
            unit = [pc |-> "GenerateID", ct |-> ct, method |-> method, path |-> path,
                    query |-> query, timeNow |-> timeNow, randomNum |-> randomNum,
                    withQuery |-> NoID, bare |-> NoID]

NextGenerateID == GenerateWithQuery \/ GenerateBare

SpecGenerateID == InitGenerateID /\ [][NextGenerateID]_vars


\* ==================================================== GenerateCT0 / RotateCT0
\* rand.Read fills 32 bytes (or fails); hex.EncodeToString writes two
\* characters for each byte.
ct0Bytes == 32

HexDigits == <<"0", "1", "2", "3", "4", "5", "6", "7", "8", "9",
               "a", "b", "c", "d", "e", "f">>

\* An encoding that writes one character for a byte (what C22 rests on).
hexEncode_oneDigit(b) == [i \in 1..Len(b) |-> HexDigits[(b[i] % 16) + 1]]

\* hex.EncodeToString
hexEncode(b) ==
    [i \in 1..(2 * Len(b)) |->
        IF i % 2 = 1 THEN HexDigits[(b[(i + 1) \div 2] \div 16) + 1]
        ELSE HexDigits[(b[i \div 2] % 16) + 1]]

\* What rand.Read may leave in b.
RandomBlocks ==
    {[i \in 1..ct0Bytes |-> x] : x \in {0, 171}}
    \cup {[i \in 1..ct0Bytes |-> IF i = 1 THEN 16 ELSE 0],
          [i \in 1..ct0Bytes |-> IF i = 1 THEN 1 ELSE 0]}

ZeroCT0 == [i \in 1..(2 * ct0Bytes) |-> "0"]

\* GenerateCT0 with the outcome of rand.Read as its input.
GenerateCT0(randOk, b) == IF randOk THEN hexEncode(b) ELSE ZeroCT0

\* Account.Credentials
Credentials(a) == [authToken |-> a.AuthToken, ct0 |-> a.CT0, userAgent |-> a.UserAgent]

RandomDraws ==
    {[ok |-> TRUE, b |-> b] : b \in RandomBlocks}
    \cup {[ok |-> FALSE, b |-> [i \in 1..ct0Bytes |-> 0]]}

\* a.RotateCT0(); the credentials before the call and the draw are kept.
RotateCT0Call ==
    /\ unit.pc = "ct0"
    /\ Len(unit.rotations) < MaxRotate
    /\ \E d \in RandomDraws :
        LET a == RotateCT0(unit.acc, GenerateCT0(d.ok, d.b))
        IN  unit' = [unit EXCEPT
                        !.acc = a,
                        !.rotations = Append(@, [before |-> Credentials(unit.acc),
                                                 draw |-> d,
                                                 after |-> Credentials(a),
                                                 refreshedAt |-> a.ct0RefreshedAt])]
    /\ UNCHANGED <<execVars, login, xt>>

\* GenerateCT0()
GenerateCT0Call ==
    /\ unit.pc = "ct0"
    /\ Len(unit.generated) < MaxGenerate
    /\ \E d \in RandomDraws :
        unit' = [unit EXCEPT !.generated = Append(@, [draw |-> d,
                                                      ct0 |-> GenerateCT0(d.ok, d.b)])]
    /\ UNCHANGED <<execVars, login, xt>>

InitCT0 ==
    /\ ExecInit(Configuration("login", FALSE, TRUE, FALSE))
    /\ login = Off
    /\ xt = Off
    /\ \E b \in RandomBlocks :
        unit = [pc |-> "ct0",
                acc |-> [AuthToken |-> 1, CT0 |-> hexEncode(b), UserAgent |-> "ua",
                         ct0RefreshedAt |-> 0],
                rotations |-> <<>>, generated |-> <<>>]

NextCT0 == RotateCT0Call \/ GenerateCT0Call

SpecCT0 == InitCT0 /\ [][NextCT0]_vars


\* ====================================================== parseRateLimitReset
\* The header value as a string, and strconv.ParseInt(v, 10, 64) on it: an
\* optional sign, then one digit at least and digits only, and a value that
\* fits the integer; anything else is an error.
HeaderChars == {"0", "1", "9", "-", "+", "x"}

DigitValue(c) == CASE c = "0" -> 0 [] c = "1" -> 1 [] c = "9" -> 9 [] OTHER -> -1

RECURSIVE decimal(_)
decimal(ds) ==
    IF ds = <<>> THEN 0
    ELSE 10 * decimal(SubSeq(ds, 1, Len(ds) - 1)) + DigitValue(ds[Len(ds)])

ParseInt(v) ==
    LET signed == v # <<>> /\ v[1] \in {"-", "+"}
        ds == IF signed THEN Tail(v) ELSE v
        n == IF signed /\ v[1] = "-" THEN 0 - decimal(ds) ELSE decimal(ds)
        ok == /\ ds # <<>>
              /\ \A i \in 1..Len(ds) : DigitValue(ds[i]) >= 0
              /\ n <= MaxInt
              /\ n >= 0 - MaxInt - 1
    IN  [numeric |-> ok, ts |-> IF ok THEN n ELSE 0]

\* parseRateLimitReset(respHdrs["x-rate-limit-reset"]) called at time t.
ParseRateLimitReset ==
    /\ unit.pc = "parseRateLimitReset"
    /\ ~unit.returned
    /\ unit' = [unit EXCEPT !.returned = TRUE,
                            !.result = parseRateLimitReset(ParseInt(unit.v), unit.t)]
    /\ UNCHANGED <<execVars, login, xt>>

InitParseReset ==
    /\ ExecInit(Configuration("login", FALSE, TRUE, FALSE))
    /\ login = Off
    /\ xt = Off
    /\ \E v \in SeqsUpTo(HeaderChars, MaxHeader), t \in 1..MaxTime :
        unit = [pc |-> "parseRateLimitReset", v |-> v, t |-> t,
                returned |-> FALSE, result |-> 0]

SpecParseReset == InitParseReset /\ [][ParseRateLimitReset]_vars


\* ================================================= one account, its mutex
\* and its session file, under concurrent goroutines
\* The executor hands the same *Account to concurrent doGET and doPOST calls
\* (pool.Next keeps no in-use mark; doPOST receives the account from its
\* caller).  Each goroutine runs, one statement at a time, the pieces of
\* doGET, doPOST and relogin that touch the account's guarded fields and its
\* session file.  Token values are drawn fresh (nextVal), so that two
\* updates never write the same value.
Goroutines == 1..NumGoroutines
NoPair == [AuthToken |-> 0, CT0 |-> 0]
AbsentFile == [exists |-> FALSE, AuthToken |-> 0, CT0 |-> 0]
IdleGoroutine == [pc |-> "idle", authTok |-> 0, ct0 |-> 0, next |-> "idle", ops |-> 0]

\* The account as NewClient left it after a login, with its session saved.
NewAccountUnit ==
    [pc |-> "account", mu |-> 0,
     AuthToken |-> 1, CT0 |-> 1, ct0RefreshedAt |-> 1,
     proxyBackoff |-> 0, proxyConsecFails |-> 0,
     file |-> [exists |-> TRUE, AuthToken |-> 1, CT0 |-> 1],
     writing |-> {},
     g |-> [i \in Goroutines |-> IdleGoroutine],
     nextVal |-> 2,
     unlocked |-> {},
     pairs |-> {[AuthToken |-> 1, CT0 |-> 1]},
     seen |-> [AuthToken |-> 1, CT0 |-> 1]]

\* a.mu.Lock() at the head of a method and the position inside it.
LockedAt ==
    [rotateLock |-> "rotateIn", credLock |-> "credIn", clearLock |-> "clearIn",
     setLock |-> "setIn", resetLock |-> "resetIn", markLock |-> "markIn",
     backoffLock |-> "backoffIn"]

\* Positions at which a goroutine waits for the network.
NetworkPcs == {"inflight", "login"}

accUnlock(u) == [u EXCEPT !.mu = 0]
accPair(u) == [AuthToken |-> u.AuthToken, CT0 |-> u.CT0]

\* doGET, doPOST or relogin reaches the account.
AccStart ==
    /\ unit.pc = "account"
    /\ \E i \in Goroutines, first \in {"rotateLock", "filter", "clearLock"} :
        /\ unit.g[i].pc = "idle"
        /\ unit.g[i].ops < MaxOps
        /\ unit' = [unit EXCEPT !.g[i].pc = first, !.g[i].ops = @ + 1]
    /\ UNCHANGED <<execVars, login, xt>>

\* a.mu.Lock()
AccLock ==
    /\ unit.pc = "account"
    /\ \E i \in Goroutines :
        /\ unit.g[i].pc \in DOMAIN LockedAt
        /\ unit.mu = 0
        /\ unit' = [unit EXCEPT !.mu = i, !.g[i].pc = LockedAt[unit.g[i].pc]]
    /\ UNCHANGED <<execVars, login, xt>>

\* Account.RotateCT0 / Account.SetCT0 inside the lock, then the unlock; the
\* caller goes on to Credentials() and saveSession.
AccRotateCT0 ==
    /\ unit.pc = "account"
    /\ \E i \in Goroutines :
        /\ unit.g[i].pc = "rotateIn"
        /\ unit' = [accUnlock(unit) EXCEPT
                        !.CT0 = unit.nextVal, !.ct0RefreshedAt = 1,
                        !.nextVal = @ + 1,
                        !.pairs = @ \cup {[AuthToken |-> unit.AuthToken,
                                           CT0 |-> unit.nextVal]},
                        !.g[i].pc = "credLock", !.g[i].next = "writeBegin"]
    /\ UNCHANGED <<execVars, login, xt>>

\* Account.Credentials inside the lock, then the unlock.
AccCredentials ==
    /\ unit.pc = "account"
    /\ \E i \in Goroutines :
        /\ unit.g[i].pc = "credIn"
        /\ unit' = [accUnlock(unit) EXCEPT
                        !.seen = accPair(unit),
                        !.g[i].authTok = unit.AuthToken, !.g[i].ct0 = unit.CT0,
                        !.g[i].pc = unit.g[i].next]
    /\ UNCHANGED <<execVars, login, xt>>

\* saveSession: os.WriteFile starts to write the file ...
AccWriteBegin ==
    /\ unit.pc = "account"
    /\ \E i \in Goroutines :
        /\ unit.g[i].pc = "writeBegin"
        /\ unit' = [unit EXCEPT !.writing = @ \cup {i}, !.g[i].pc = "writeEnd"]
    /\ UNCHANGED <<execVars, login, xt>>

\* ... and has written it.
AccWriteEnd ==
    /\ unit.pc = "account"
    /\ \E i \in Goroutines :
        /\ unit.g[i].pc = "writeEnd"
        /\ unit' = [unit EXCEPT
                        !.writing = @ \ {i},
                        !.file = [exists |-> TRUE, AuthToken |-> unit.g[i].authTok,
                                  CT0 |-> unit.g[i].ct0],
                        !.g[i].pc = "idle"]
    /\ UNCHANGED <<execVars, login, xt>>

\* doGET's selection filter: a.AllowRequest(endpoint) has returned and
\* a.proxyBackoff is read; then the request is built from Credentials().
AccFilter ==
    /\ unit.pc = "account"
    /\ \E i \in Goroutines :
        /\ unit.g[i].pc = "filter"
        /\ unit' = [unit EXCEPT
                        !.unlocked = IF unit.mu = i THEN @ ELSE @ \cup {"proxyBackoff"},
                        !.g[i].pc = "credLock", !.g[i].next = "inflight"]
    /\ UNCHANGED <<execVars, login, xt>>

\* doRequest returned: an HTTP response, or a proxy error.
AccResponse ==
    /\ unit.pc = "account"
    /\ \E i \in Goroutines, proxyErr \in BOOLEAN :
        /\ unit.g[i].pc = "inflight"
        /\ unit' = [unit EXCEPT !.g[i].pc = IF proxyErr THEN "markLock" ELSE "resetLock"]
    /\ UNCHANGED <<execVars, login, xt>>

\* acc.proxyConsecFails = 0 inside the lock.
AccResetProxy ==
    /\ unit.pc = "account"
    /\ \E i \in Goroutines :
        /\ unit.g[i].pc = "resetIn"
        /\ unit' = [accUnlock(unit) EXCEPT !.proxyConsecFails = 0, !.g[i].pc = "idle"]
    /\ UNCHANGED <<execVars, login, xt>>

\* markProxyDown: the two locked sections.
AccMarkProxyDown ==
    /\ unit.pc = "account"
    /\ \E i \in Goroutines :
        \/ /\ unit.g[i].pc = "markIn"
           /\ unit' = [accUnlock(unit) EXCEPT !.proxyConsecFails = 1,
                                              !.g[i].pc = "backoffLock"]
        \/ /\ unit.g[i].pc = "backoffIn"
           /\ unit' = [accUnlock(unit) EXCEPT !.proxyBackoff = 1, !.g[i].pc = "idle"]
    /\ UNCHANGED <<execVars, login, xt>>

\* relogin: acc.SetCredentials("", "") inside the lock.
AccClear ==
    /\ unit.pc = "account"
    /\ \E i \in Goroutines :
        /\ unit.g[i].pc = "clearIn"
        /\ unit' = [accUnlock(unit) EXCEPT
                        !.AuthToken = 0, !.CT0 = 0, !.ct0RefreshedAt = 1,
                        !.pairs = @ \cup {NoPair},
                        !.g[i].pc = "remove"]
    /\ UNCHANGED <<execVars, login, xt>>

\* relogin: os.Remove(sessionPath(...)).
AccRemove ==
    /\ unit.pc = "account"
    /\ \E i \in Goroutines :
        /\ unit.g[i].pc = "remove"
        /\ unit' = [unit EXCEPT !.file = AbsentFile, !.g[i].pc = "load"]
    /\ UNCHANGED <<execVars, login, xt>>

\* loadOrLogin: loadSession returned.
AccLoadSession ==
    /\ unit.pc = "account"
    /\ \E i \in Goroutines :
        /\ unit.g[i].pc = "load"
        /\ unit' = [unit EXCEPT
                        !.g[i].authTok = unit.file.AuthToken,
                        !.g[i].ct0 = unit.file.CT0,
                        !.g[i].pc = IF unit.file.AuthToken # 0 /\ unit.file.CT0 # 0
                                    THEN "loadAuth" ELSE "provided"]
    /\ UNCHANGED <<execVars, login, xt>>

\* loadOrLogin: acc.AuthToken = authToken, then acc.CT0 = ct0 and
\* acc.ct0RefreshedAt = time.Now(); no lock is taken.
AccLoadWrite ==
    /\ unit.pc = "account"
    /\ \E i \in Goroutines :
        \/ /\ unit.g[i].pc = "loadAuth"
           /\ unit' = [unit EXCEPT
                        !.AuthToken = unit.g[i].authTok,
                        !.unlocked = IF unit.mu = i THEN @ ELSE @ \cup {"AuthToken"},
                        !.g[i].pc = "loadCT0"]
        \/ /\ unit.g[i].pc = "loadCT0"
           /\ unit' = [unit EXCEPT
                        !.CT0 = unit.g[i].ct0, !.ct0RefreshedAt = 1,
                        !.unlocked = IF unit.mu = i THEN @
                                     ELSE @ \cup {"CT0", "ct0RefreshedAt"},
                        !.pairs = @ \cup {[AuthToken |-> unit.AuthToken,
                                           CT0 |-> unit.g[i].ct0]},
                        !.g[i].pc = "idle"]
    /\ UNCHANGED <<execVars, login, xt>>

\* loadOrLogin: if acc.AuthToken != "" && acc.CT0 != "" the provided pair is
\* kept and saved; otherwise the login starts (the account has a password).
AccProvided ==
    /\ unit.pc = "account"
    /\ \E i \in Goroutines :
        /\ unit.g[i].pc = "provided"
        /\ unit' = [unit EXCEPT
                        !.unlocked = IF unit.mu = i THEN @ ELSE @ \cup {"AuthToken", "CT0"},
                        !.g[i].authTok = unit.AuthToken, !.g[i].ct0 = unit.CT0,
                        !.g[i].pc = IF unit.AuthToken # 0 /\ unit.CT0 # 0
                                    THEN "writeBegin" ELSE "login"]
    /\ UNCHANGED <<execVars, login, xt>>

\* login returned: an error, or the cookies of the new session.
AccLogin ==
    /\ unit.pc = "account"
    /\ \E i \in Goroutines, ok \in BOOLEAN :
        /\ unit.g[i].pc = "login"
        /\ unit' = IF ok
                   THEN [unit EXCEPT !.g[i].authTok = unit.nextVal,
                                     !.g[i].ct0 = unit.nextVal,
                                     !.nextVal = @ + 1,
                                     !.g[i].pc = "setLock"]
                   ELSE [unit EXCEPT !.g[i].pc = "idle"]
    /\ UNCHANGED <<execVars, login, xt>>

\* login: acc.SetCredentials(authToken, ct0) inside the lock.
AccSetCredentials ==
    /\ unit.pc = "account"
    /\ \E i \in Goroutines :
        /\ unit.g[i].pc = "setIn"
        /\ unit' = [accUnlock(unit) EXCEPT
                        !.AuthToken = unit.g[i].authTok, !.CT0 = unit.g[i].ct0,
                        !.ct0RefreshedAt = 1,
                        !.pairs = @ \cup {[AuthToken |-> unit.g[i].authTok,
                                           CT0 |-> unit.g[i].ct0]},
                        !.g[i].pc = "saveArgs"]
    /\ UNCHANGED <<execVars, login, xt>>

\* loadOrLogin: saveSession(dir, acc.Username, acc.AuthToken, acc.CT0), the
\* arguments read from the account.
AccSaveArgs ==
    /\ unit.pc = "account"
    /\ \E i \in Goroutines :
        /\ unit.g[i].pc = "saveArgs"
        /\ unit' = [unit EXCEPT
                        !.unlocked = IF unit.mu = i THEN @ ELSE @ \cup {"AuthToken", "CT0"},
                        !.g[i].authTok = unit.AuthToken, !.g[i].ct0 = unit.CT0,
                        !.g[i].pc = "writeBegin"]
    /\ UNCHANGED <<execVars, login, xt>>

InitAccount ==
    /\ ExecInit(Configuration("login", FALSE, TRUE, FALSE))
    /\ login = Off
    /\ xt = Off
    /\ unit = NewAccountUnit

NextAccount ==
    \/ AccStart
    \/ AccLock
    \/ AccRotateCT0
    \/ AccCredentials
    \/ AccWriteBegin
    \/ AccWriteEnd
    \/ AccFilter
    \/ AccResponse
    \/ AccResetProxy
    \/ AccMarkProxyDown
    \/ AccClear
    \/ AccRemove
    \/ AccLoadSession
    \/ AccLoadWrite
    \/ AccProvided
    \/ AccLogin
    \/ AccSetCredentials
    \/ AccSaveArgs

SpecAccount == InitAccount /\ [][NextAccount]_vars


\* ======================================================== proxy backoff
\* The outcome of doRequest in doGET and doPOST as far as the account's proxy
\* state and health counters go, with time in seconds.
ProxyBackoffInitial == 30       \* ClientConfig.defaults: 30 * time.Second
ProxyBackoffMax == 1800         \* ClientConfig.defaults: 30 * time.Minute
JitterTenths == 3               \* BackoffConfig.JitterPct: 0.3

\* The substrings isProxyError looks for, and two messages without them.
ProxyPatterns == {"proxy", "SOCKS", "tunnel", "connection refused", "no such host"}
ErrorMessages == ProxyPatterns \cup {"timeout", "EOF"}

isProxyError(msg) == msg \in ProxyPatterns

RECURSIVE pow2(_)
pow2(n) == IF n = 0 THEN 1 ELSE 2 * pow2(n - 1)

\* stealth.BackoffConfig{InitialWait, MaxWait, Multiplier: 2.0}.Duration(n)
\* before jitter: InitialWait * 2^n, capped at MaxWait.
BackoffDuration_noCap(n) == ProxyBackoffInitial * pow2(n)

BackoffDuration(n) ==
    IF ProxyBackoffInitial * pow2(n) > ProxyBackoffMax THEN ProxyBackoffMax
    ELSE ProxyBackoffInitial * pow2(n)

\* The jitter of JitterPct around d: j in {-1, 0, 1} stands for the lowest,
\* the middle and the highest draw.
Jittered(d, j) == d + (j * ((d * JitterTenths) \div 10))

\* markProxyDown that also counts a health failure (what C35 rests on).
markProxyDownAt_recordsFailure(a, t, j) ==
    LET fails == a.proxyConsecFails + 1
    IN  RecordFailure([a EXCEPT !.proxyConsecFails = fails,
                                !.proxyBackoff = t + Jittered(BackoffDuration(fails - 1), j)])

\* markProxyDown at time t with jitter draw j.
markProxyDownAt(a, t, j) ==
    LET fails == a.proxyConsecFails + 1
    IN  [a EXCEPT !.proxyConsecFails = fails,
                  !.proxyBackoff = t + Jittered(BackoffDuration(fails - 1), j)]

\* if err != nil { if acc.Proxy != "" && isProxyError(err) {...} else {...} }
requestFailed(a, msg, t, j) ==
    IF a.Proxy /\ isProxyError(msg) THEN markProxyDownAt(a, t, j) ELSE RecordFailure(a)

NewProxyUnit(proxy) ==
    [pc |-> "proxy", acc |-> NewAccount("login", TRUE, proxy), clock |-> 0,
     nEvents |-> 0, last |-> "none", j |-> 0]

\* doRequest returned an error.
ProxyRequestFailed ==
    /\ unit.pc = "proxy"
    /\ unit.nEvents < MaxProxyEvents
    /\ \E msg \in ErrorMessages, j \in {-1, 0, 1} :
        unit' = [unit EXCEPT !.acc = requestFailed(@, msg, unit.clock, j),
                             !.nEvents = @ + 1, !.last = msg, !.j = j]
    /\ UNCHANGED <<execVars, login, xt>>

\* doRequest returned an HTTP response.
ProxyHTTPResponse ==
    /\ unit.pc = "proxy"
    /\ unit.nEvents < MaxProxyEvents
    /\ unit' = [unit EXCEPT !.acc = resetProxyConsecFails(@),
                            !.nEvents = @ + 1, !.last = "response", !.j = 0]
    /\ UNCHANGED <<execVars, login, xt>>

ProxyTick ==
    /\ unit.pc = "proxy"
    /\ unit.clock < 60 * MaxProxyClock
    /\ unit' = [unit EXCEPT !.clock = @ + 60, !.last = "none", !.j = 0]
    /\ UNCHANGED <<execVars, login, xt>>

InitProxy ==
    /\ ExecInit(Configuration("login", FALSE, TRUE, FALSE))
    /\ login = Off
    /\ xt = Off
    /\ \E proxy \in BOOLEAN : unit = NewProxyUnit(proxy)

NextProxy == ProxyRequestFailed \/ ProxyHTTPResponse \/ ProxyTick

SpecProxy == InitProxy /\ [][NextProxy]_vars


\* ==================================================== newClientTransaction
\* The on-demand script is the sequence of numbers indicesRegex captures in
\* it (one or two digits each, so strconv.Atoi never fails).  The home page
\* is the content of its verification meta tag (absent, not base64, or the
\* bytes it decodes to; a non-empty base64 text decodes to at least one byte)
\* and the data of its four loading-x-anim frames (<<>>: no such svg or no
\* such path).  Indices are 0-based as in the code: byte i of keyBytes is
\* keyBytes[i + 1] here.
totalTime == 4096

IndexValues == {0, 5, 9}
Scripts == SeqsUpTo(IndexValues, MaxMatches)

Row(n) == [i \in 1..n |-> i]
FrameData == {<<>>, <<Row(11)>>, <<Row(10)>>, <<Row(12), Row(3)>>}
KeyBytes == {[i \in 1..n |-> b] : n \in {1, 5, 6, 10}, b \in {0, 1, 17}}
MetaTags == {[found |-> FALSE, base64 |-> FALSE, bytes |-> <<>>],
             [found |-> TRUE, base64 |-> FALSE, bytes |-> <<>>]}
            \cup {[found |-> TRUE, base64 |-> TRUE, bytes |-> k] : k \in KeyBytes}
HomePages ==
    {[meta |-> m, frames |-> [i \in 0..3 |-> IF i = 0 THEN f0 ELSE IF i = 1 THEN f1 ELSE f2]] :
        m \in MetaTags, f0 \in FrameData, f1 \in FrameData, f2 \in {<<>>, <<Row(11)>>}}

NilCT == [keyBytes |-> <<>>, animationKey |-> <<>>, rowIndex |-> 0, keyBytesIndices |-> <<>>]

\* getKeyIndices: indices[0], indices[1:]; 0, nil without a match.
getKeyIndices(js) ==
    IF Len(js) = 0 THEN [rowIndex |-> 0, keyIndices |-> <<>>]
    ELSE [rowIndex |-> Head(js), keyIndices |-> Tail(js)]

\* jsRound(x / 10) * 10 for the non-negative integer x.
jsRoundTens(x) == ((x + 5) \div 10) * 10

\* get2DArray: the data of frame keyBytes[5] % 4, nil (<<>>) when the key is
\* shorter than 6 bytes or the frame has no data.
get2DArray(ct, html) ==
    IF Len(ct.keyBytes) < 6 THEN <<>>
    ELSE html.frames[ct.keyBytes[6] % 4]

\* animate: "" for a row of fewer than 11 values; otherwise the text built
\* from the row and the target time, which always ends in the two "0"s that
\* are appended last.
animate(frames, targetTime) ==
    IF Len(frames) < 11 THEN <<>>
    ELSE <<frames, targetTime, "0", "0">>

RECURSIVE frameTimeOf(_, _)
frameTimeOf(keyBytes, indices) ==
    IF indices = <<>> THEN 1
    ELSE LET idx == Head(indices)
             rest == frameTimeOf(keyBytes, Tail(indices))
         IN  IF idx < Len(keyBytes) THEN (keyBytes[idx + 1] % 16) * rest ELSE rest

\* buildAnimationKey
buildAnimationKey(ct, html) ==
    IF Len(ct.keyBytesIndices) = 0 THEN [key |-> <<>>, err |-> "no key byte indices"]
    ELSE LET rowIndex == IF ct.rowIndex < Len(ct.keyBytes)
                         THEN ct.keyBytes[ct.rowIndex + 1] % 16 ELSE 0
             frameTime == jsRoundTens(frameTimeOf(ct.keyBytes, ct.keyBytesIndices))
             arr == get2DArray(ct, html)
         IN  IF arr = <<>> \/ rowIndex >= Len(arr)
             THEN [key |-> <<>>, err |-> "failed to get 2D array from SVG frames"]
             ELSE [key |-> animate(arr[rowIndex + 1], <<frameTime, totalTime>>),
                   err |-> "nil"]

\* newClientTransaction
newClientTransaction(html, js) ==
    LET ki == getKeyIndices(js)
        ct1 == [NilCT EXCEPT !.rowIndex = ki.rowIndex, !.keyBytesIndices = ki.keyIndices]
    IN  IF ~html.meta.found
        THEN [ct |-> NilCT, err |-> "twitter-site-verification meta tag not found"]
        ELSE IF ~html.meta.base64
        THEN [ct |-> NilCT, err |-> "decode verification key"]
        ELSE LET ct2 == [ct1 EXCEPT !.keyBytes = html.meta.bytes]
                 ak == buildAnimationKey(ct2, html)
             IN  IF ak.err # "nil"
                 THEN [ct |-> NilCT, err |-> ak.err]
                 ELSE [ct |-> [ct2 EXCEPT !.animationKey = ak.key], err |-> "nil"]

\* Manager.Initialize on the fetched home page and script: m.ct is replaced
\* only when newClientTransaction returned no error.
NewCTUnit(html, js) ==
    [pc |-> "newct", stage |-> "fetched", html |-> html, js |-> js,
     res |-> [ct |-> NilCT, err |-> "nil"], installed |-> FALSE, ct |-> NilCT]

NewCTInitialize ==
    /\ unit.pc = "newct"
    /\ unit.stage = "fetched"
    /\ LET res == newClientTransaction(unit.html, unit.js)
       IN  unit' = [unit EXCEPT !.stage = "returned",
                                !.res = res,
                                !.installed = (res.err = "nil"),
                                !.ct = IF res.err = "nil" THEN res.ct ELSE @]
    /\ UNCHANGED <<execVars, login, xt>>

InitNewCT ==
    /\ ExecInit(Configuration("login", FALSE, TRUE, FALSE))
    /\ login = Off
    /\ xt = Off
    /\ \E html \in HomePages, js \in Scripts : unit = NewCTUnit(html, js)

NextNewCT == NewCTInitialize

SpecNewCT == InitNewCT /\ [][NextNewCT]_vars


\* =================================================================== claims
\* The positions of a call inside the account loop, and after it.
LoopPcs == {"jitter", "backoff", "wait", "sent", "retry", "loginToken", "relogin"}
GuestPcs == {"acquire", "acquireBackoff", "guestSent",
             "reacquire", "reacquireBackoff", "guestRetry"}
\* The endpoints the specification lists as requiring an authenticated account.
AuthEndpoints == {"Following", "Followers", "Retweeters", "CreateTweet"}

\* C1: after a 429 with reset time T for an (account, endpoint), no request
\* for that pair is issued with the account's credentials before T, by doGET
\* or doPOST, first sends and inline retries alike.
C1_NoRequestBeforeReset ==
    lastReq.kind = "account" => lastReq.at >= lastReq.reset429

\* C2: per (account, endpoint), the requests sent in any interval of
\* WindowDuration, this one included, number at most RequestsPerWindow.
C2_WindowBudget ==
    lastReq.kind = "account" => lastReq.inWindow <= RequestsPerWindow


\* C3: the account doGET gets from the pool is never hard-deactivated
\* (inactive with a zero reactivateAt) nor soft-deactivated with a
\* reactivateAt still ahead: judged on the account as the selecting step
\* found it.
C3_NeverSelectsDeactivated ==
    [][(lastReq'.kind = "account" /\ lastReq'.method = "GET" /\ ~lastReq'.inline)
        => LET a == accounts[lastReq'.acc]
           IN  a.active \/ (a.reactivateAt # 0 /\ now >= a.reactivateAt)]_vars

\* C3 witness: doGET sends with one account while another one is
\* soft-deactivated and its reactivateAt is still ahead.
C3_Witness ==
    /\ lastReq.kind = "account" /\ lastReq.method = "GET" /\ ~lastReq.inline
    /\ \E id \in Accounts \ {lastReq.acc} :
        ~accounts[id].active /\ accounts[id].reactivateAt > now

\* C4: every request sent with an account's credentials carries a ct0 that
\* was set or refreshed at most ct0MaxAge earlier; an account whose ct0 was
\* never refreshed is rotated, and its session saved, in the step that sends.
C4_CT0Fresh ==
    /\ [](lastReq.kind = "account"
            => /\ lastReq.ct0RefreshedAt # 0
               /\ lastReq.at - lastReq.ct0RefreshedAt <= ct0MaxAge)
    /\ [][(lastReq'.kind = "account" /\ ~lastReq'.inline
            /\ accounts[lastReq'.acc].ct0RefreshedAt = 0)
          => /\ accounts'[lastReq'.acc].ct0RefreshedAt = now
             /\ lastReq'.ct0 = accounts'[lastReq'.acc].CT0
             /\ sessions'[lastReq'.acc].CT0 = lastReq'.ct0
             /\ sessions'[lastReq'.acc].SavedAt = now]_vars

\* C4 witness: with no rare event so far, a first send after the first tick
\* whose ct0 was rotated and saved in the same tick (the proactive rotation).
C4_Witness ==
    /\ lastReq.kind = "account" /\ ~lastReq.inline
    /\ nRare = 0 /\ lastReq.at > 1
    /\ lastReq.ct0RefreshedAt = lastReq.at
    /\ sessions[lastReq.acc].SavedAt = lastReq.at
    /\ sessions[lastReq.acc].CT0 = lastReq.ct0

\* C5: every request sent with an account's credentials carries an
\* x-client-transaction-id, whatever the state of the manager.
C5_TransactionIdPresent ==
    lastReq.kind = "account" => lastReq.txid

\* C6: a call asks the pool (doGET) or sends (doPOST) at most 3 times, the
\* attempt counter stays below 3 inside the loop, pool exhaustion ends the
\* loop in the same step, and for an endpoint that requires auth exhaustion
\* comes only out of the wait, once it is over or the context is cancelled.
C6_BoundedAttempts ==
    /\ [](\A p \in Procs :
            /\ calls[p].nTries <= 3
            /\ calls[p].pc \in LoopPcs
                => calls[p].attempt < 3 /\ calls[p].nTries <= calls[p].attempt + 1
            /\ calls[p].exhausted => calls[p].ended /\ calls[p].pc \notin LoopPcs)
    /\ [][\A p \in Procs :
            (~calls[p].exhausted /\ calls'[p].exhausted
                /\ calls'[p].endpoint \in AuthEndpoints)
            => /\ calls[p].pc = "wait"
               /\ calls[p].cancelled \/ now >= calls[p].waitUntil]_vars

\* C6 witness: a call in its third attempt, and a call the pool exhaustion
\* ended, are both reachable; this is the third attempt in flight.
C6_Witness ==
    \E p \in Procs : calls[p].nTries = 3 /\ calls[p].attempt = 2 /\ calls[p].pc = "sent"

\* C7 as stated: every request that asks for a guest token or carries one,
\* the requests of the login flow that relogin runs included, comes from a
\* doGET on an endpoint that does not require auth.
C7_NoGuestTokenElsewhere ==
    lastReq.kind \in {"guest", "activate", "loginActivate", "loginFlow"}
    => calls[lastReq.proc].kind = "GET" /\ lastReq.endpoint \notin AuthEndpoints

\* C7, outside the login flow: the guest fallback (activate, requests with
\* the cached token) comes only from doGET on an endpoint that does not
\* require auth; a call on an endpoint that requires auth, and any doPOST,
\* never enters it and ends with an error once its loop is over; doPOST
\* sends with the account it was given and never moves the pool.
C7_GuestOnlyForReads ==
    /\ [](/\ lastReq.kind \in {"guest", "activate"}
                => /\ calls[lastReq.proc].kind = "GET"
                   /\ lastReq.endpoint \notin AuthEndpoints
          /\ \A p \in Procs :
                (calls[p].endpoint \in AuthEndpoints \/ calls[p].kind = "POST")
                => /\ calls[p].nActivate = 0 /\ calls[p].nGuestReq = 0
                   /\ calls[p].pc \notin GuestPcs
                   /\ calls[p].ended
                        => calls[p].pc = "done" /\ calls[p].result \in {"error", "ctxErr"})
    /\ [][(lastReq'.kind = "account" /\ lastReq'.method = "POST")
            => lastReq'.acc = calls[lastReq'.proc].acc /\ pool' = pool]_vars

\* C7 witness: a doGET on Following ended on pool exhaustion with an error.
C7_Witness ==
    \E p \in Procs :
        /\ calls[p].kind = "GET" /\ calls[p].endpoint = "Following"
        /\ calls[p].exhausted /\ calls[p].pc = "done" /\ calls[p].result = "error"

\* C8: on an endpoint that does not require auth, a doGET whose account loop
\* ended without success is on the guest path: it asks for a token exactly
\* when none is cached and usable, sends the same endpoint with the cached
\* token, changes no account, session or pool state there, and with an empty
\* pool and a guest endpoint that answers, makes one activate call and one
\* GraphQL call.
C8_GuestFallback ==
    /\ [](/\ \A p \in Procs :
                (calls[p].kind = "GET" /\ calls[p].endpoint \notin AuthEndpoints)
                => /\ calls[p].ended => calls[p].nActivate + calls[p].nGuestReq >= 1
                   /\ calls[p].pc \in {"acquire", "acquireBackoff"} => ~calls[p].gtUsable
                   /\ calls[p].pc = "guestSent"
                        => (calls[p].nActivate >= 1 <=> ~calls[p].gtUsable)
                   /\ (calls[p].pc = "guestSent" /\ pool.items = <<>>
                        /\ ~calls[p].gtUsable /\ calls[p].acqAttempt = 0)
                        => calls[p].nActivate = 1 /\ calls[p].nGuestReq = 1
          /\ lastReq.kind = "guest"
                => /\ lastReq.gt # 0 /\ lastReq.gt = guest.guestToken
                   /\ lastReq.endpoint = calls[lastReq.proc].endpoint)
    /\ [][\A p \in Procs :
            (calls[p].pc \in GuestPcs /\ calls'[p] # calls[p])
            => accounts' = accounts /\ sessions' = sessions /\ pool' = pool]_vars

\* C8 witness: with an empty pool a doGET returned the data after one
\* activate call and one GraphQL call.
C8_Witness ==
    \E p \in Procs :
        /\ pool.items = <<>> /\ calls[p].pc = "done" /\ calls[p].result = "body"
        /\ calls[p].nActivate = 1 /\ calls[p].nGuestReq = 1

\* C9: doPOST returns the body whenever the response it handled, to a first
\* send or to an inline retry, is an HTTP 200 or 201 with no classified error.
C9_PostSuccessOn2xx ==
    (/\ lastResp.err = "nil"
     /\ calls[lastResp.proc].kind = "POST"
     /\ lastResp.status \in {200, 201}
     /\ lastResp.class = errNone)
    => calls[lastResp.proc].pc = "done" /\ calls[lastResp.proc].result = "body"

\* C10: no HTTP request (account, activate or guest) is started by a call
\* whose context is already cancelled.
C10_NoRequestAfterCancel ==
    lastReq.kind # "none" => ~lastReq.cancelled

\* C11: every call that has returned, with the body or with an error of its
\* own (a cancellation apart), has invoked the metrics hook, and the hook's
\* last invocation reported success exactly when the call returned the body.
C11_HookOnEveryOutcome ==
    \A p \in Procs :
        (calls[p].pc = "done" /\ calls[p].result \in {"body", "error"})
        => /\ calls[p].hook # "none"
           /\ calls[p].hook = "success" <=> calls[p].result = "body"

\* C12: a login that has returned without having reached a terminal subtask
\* (LoginSuccessSubtask, AccountDuplicationCheck, DenyLoginSubtask) returned
\* an error and set no credentials; and no login submits more than 10 steps.
C12_LoginBudget ==
    /\ login.pc # "off" => login.nSubmits <= loginRounds
    /\ (login.pc = "returned" /\ ~login.terminal)
        => login.err /\ login.acc.AuthToken = 0 /\ login.acc.CT0 = 0

\* C13: when a relogin has returned, with nil or with an error, the health
\* counters of its account are zero; when it returned nil the account holds
\* non-empty credentials set after the clearing, and they are on disk.
C13_ReloginResets ==
    lastRelogin.acc # NoAccount
    => LET a == accounts[lastRelogin.acc]
       IN  /\ a.total = 0 /\ a.failed = 0 /\ a.consec = 0
           /\ ~lastRelogin.err
                => /\ a.AuthToken # 0 /\ a.CT0 # 0 /\ a.ct0RefreshedAt = now
                   /\ sessions[lastRelogin.acc].AuthToken = a.AuthToken

\* C14: loadOrLogin takes (1) the session on disk when it is readable, at most
\* SessionTTL old and holds both tokens, whatever the account was configured
\* with, and starts no login; (2) otherwise the provided pair when both are
\* there, and saves it; (3) otherwise it fails without starting a login when
\* there is no password, and starts the login when there is one.
C14_LoadOrder ==
    unit.pc \in {"login", "loaded"}
    => LET f == unit.file0
           a0 == unit.acc0
           usable == /\ f # NoSession /\ ~unit.corrupt
                     /\ now - f.SavedAt <= SessionTTL
                     /\ f.AuthToken # 0 /\ f.CT0 # 0
           provided == a0.AuthToken # 0 /\ a0.CT0 # 0
       IN  /\ usable
                => /\ unit.pc = "loaded" /\ ~unit.err /\ unit.nLogin = 0
                   /\ unit.acc.AuthToken = f.AuthToken /\ unit.acc.CT0 = f.CT0
                   /\ unit.sess[1] = f
           /\ (~usable /\ provided)
                => /\ unit.pc = "loaded" /\ ~unit.err /\ unit.nLogin = 0
                   /\ unit.acc.AuthToken = a0.AuthToken /\ unit.acc.CT0 = a0.CT0
                   /\ unit.sess[1] = [AuthToken |-> a0.AuthToken, CT0 |-> a0.CT0,
                                      SavedAt |-> now]
           /\ (~usable /\ ~provided /\ ~a0.Password)
                => /\ unit.pc = "loaded" /\ unit.err /\ unit.nLogin = 0
                   /\ unit.acc = a0 /\ unit.sess[1] = f
           /\ (~usable /\ ~provided /\ a0.Password)
                => /\ unit.nLogin = 1
                   /\ (unit.pc = "loaded" /\ ~unit.err)
                        => /\ unit.acc.AuthToken = LoginCookie
                           /\ unit.sess[1].AuthToken = LoginCookie

\* C14 witness: the account was configured with a pair, the disk held another
\* one saved exactly SessionTTL ago, and the account now holds the disk's pair.
C14_Witness ==
    /\ unit.pc = "loaded"
    /\ unit.acc0.AuthToken = 1 /\ unit.acc0.CT0 = 2
    /\ unit.file0.SavedAt = now - SessionTTL
    /\ unit.acc.AuthToken = DiskToken /\ unit.acc.CT0 = DiskToken

XtInstalled == {n \in 1..MaxBuilds : xt.installedAt[n] # 0}

\* m.ct and m.lastRefresh belong to the same completed Initialize.
XtPairConsistent ==
    \/ xt.ct = 0 /\ xt.lastRefresh = 0
    \/ xt.ct \in XtInstalled /\ xt.lastRefresh = xt.installedAt[xt.ct]

\* C16: a failed Initialize leaves m.ct and m.lastRefresh as they were, a
\* GenerateID whose refresh failed while an old state exists still returns
\* a token of an installed state, and GenerateID returns an error only
\* when no Initialize has ever installed a state.
C16_FailedRefreshKeepsState ==
    /\ [][\A p \in Callers :
            (xt.callers[p].pc = "fetch" /\ xt'.callers[p].pc = "hasOld")
                => xt'.ct = xt.ct /\ xt'.lastRefresh = xt.lastRefresh]_vars
    /\ [][\A p \in Callers :
            (/\ xt.callers[p].pc # "returned"
             /\ xt'.callers[p].pc = "returned"
             /\ xt'.callers[p].result.err)
                => xt.ct = 0 /\ XtInstalled = {}]_vars
    /\ [](\A p \in Callers :
            (/\ xt.callers[p].pc = "returned"
             /\ xt.callers[p].initErr
             /\ xt.callers[p].hasOld)
                => /\ ~xt.callers[p].result.err
                   /\ xt.callers[p].result.state \in XtInstalled)

\* C16 witness: a GenerateID that found the state one interval old, whose
\* Initialize failed, and that returned a token of the old state.
C16_Witness ==
    \E p \in Callers :
        /\ xt.callers[p].pc = "returned"
        /\ xt.callers[p].seenCt = 1
        /\ xt.callers[p].initErr
        /\ xt.callers[p].hasOld
        /\ ~xt.callers[p].result.err
        /\ xt.callers[p].result.state = 1
        /\ xt.ct = 1
        /\ xt.lastRefresh = xt.installedAt[1]

\* C17: the writer excludes every reader, so a reader sees m.ct and
\* m.lastRefresh of one completed Initialize; both fields change only in
\* steps of the goroutine holding the write lock; a goroutine fetching
\* holds no lock; every token carries the fields of one installed state.
C17_OneCompleteState ==
    /\ [](xt.writer # 0 => xt.readers = {})
    /\ [](xt.readers # {} => XtPairConsistent)
    /\ [](\A p \in Callers :
            /\ xt.callers[p].pc \in {"writeCt", "writeLast"} => xt.writer = p
            /\ xt.callers[p].pc = "fetch" => p \notin xt.readers /\ xt.writer # p
            /\ (xt.callers[p].pc = "returned" /\ ~xt.callers[p].result.err)
                 => /\ xt.callers[p].result.state \in XtInstalled
                    /\ xt.callers[p].result.keyBytes
                         = ClientTransaction(xt.callers[p].result.state).keyBytes
                    /\ xt.callers[p].result.animationKey
                         = ClientTransaction(xt.callers[p].result.state).animationKey)
    /\ [][(xt'.ct # xt.ct \/ xt'.lastRefresh # xt.lastRefresh)
            => /\ xt.writer # 0
               /\ xt.callers[xt.writer].pc \in {"writeCt", "writeLast"}
               /\ xt'.callers[xt.writer].pc # xt.callers[xt.writer].pc]_vars

\* C17 witness: one goroutine has written the second state's pointer but not
\* yet lastRefresh, while another one waits for the read lock to generate.
C17_Witness ==
    \E p, q \in Callers :
        /\ p # q
        /\ xt.callers[p].pc = "writeLast"
        /\ xt.ct = 2
        /\ xt.lastRefresh = xt.installedAt[1]
        /\ xt.lastRefresh # 0
        /\ xt.callers[q].pc = "rlockGen"


\* What C18 speaks of: the tokens the limiter still counts, the credentials,
\* the health counters, the proxy backoff and the active flag of account o,
\* as record a holds them when the clock shows t.
frameState(a, t) ==
    [granted |-> limiterAt(a.rateLimiter, t).granted,
     limitedUntil |-> limiterAt(a.rateLimiter, t).limitedUntil,
     AuthToken |-> a.AuthToken, CT0 |-> a.CT0,
     total |-> a.total, failed |-> a.failed, consec |-> a.consec,
     proxyBackoff |-> a.proxyBackoff, active |-> a.active]

\* C18: in every step of a doGET attempt, the accounts whose limiter
\* tokens, credentials, health counters, proxy backoff or active flag change
\* are at most the account the attempt selected (at most one account when
\* the selection found none).
C18_OneAccountPerAttempt ==
    [][\A p \in Procs :
        (/\ calls[p].kind = "GET"
         /\ calls[p].pc \notin {"idle", "done"}
         /\ calls'[p] # calls[p]
         /\ now' = now)
        => LET changed == {o \in DOMAIN accounts :
                              frameState(accounts'[o], now) # frameState(accounts[o], now)}
               selected == IF calls[p].pc \in {"jitter", "backoff", "wait"}
                           THEN (IF calls'[p].pc = "sent" THEN calls'[p].acc
                                 ELSE NoAccount)
                           ELSE calls[p].acc
           IN  IF selected # NoAccount THEN changed \subseteq {selected}
               ELSE Cardinality(changed) <= 1]_vars


\* C19 as stated: classifyError returns the class of the first recognised
\* code of the errors array, skipping every other entry, and errNone for a
\* malformed body, a missing or empty errors array and an array without a
\* recognised code; repeated calls give the same class.
C19_FirstRecognisedCode ==
    unit.pc = "classifyError" =>
        LET raw == unit.body
            classOf == (88 :> errBanned) @@ (64 :> errSuspended) @@ (326 :> errLocked)
                       @@ (353 :> errCSRF) @@ (32 :> errAuthExpired)
                       @@ (161 :> errBlocked) @@ (179 :> errNotAuthorized)
                       @@ (219 :> errNotAuthorized) @@ (131 :> errInternal)
            es == IF raw.kind = "errors" THEN raw.errors ELSE <<>>
            hits == {i \in 1..Len(es) : es[i].v \in DOMAIN classOf}
            first == CHOOSE i \in hits : \A j \in hits : i <= j
            expected == IF hits = {} THEN errNone ELSE classOf[es[first].v]
        IN  \A k \in 1..Len(unit.results) : unit.results[k] = expected

\* C19 amended: the same for a body all of whose entries decode (integer
\* or absent codes); a body one of whose entries does not fit an integer
\* code gives errNone whatever else the array holds.
C19_FirstRecognisedDecodedCode ==
    unit.pc = "classifyError" =>
        LET raw == unit.body
            classOf == (88 :> errBanned) @@ (64 :> errSuspended) @@ (326 :> errLocked)
                       @@ (353 :> errCSRF) @@ (32 :> errAuthExpired)
                       @@ (161 :> errBlocked) @@ (179 :> errNotAuthorized)
                       @@ (219 :> errNotAuthorized) @@ (131 :> errInternal)
            es == IF raw.kind = "errors" THEN raw.errors ELSE <<>>
            decodes == \A i \in 1..Len(es) : es[i].t # "bad"
            hits == {i \in 1..Len(es) : es[i].t = "int" /\ es[i].v \in DOMAIN classOf}
            first == CHOOSE i \in hits : \A j \in hits : i <= j
            expected == IF ~decodes \/ hits = {} THEN errNone ELSE classOf[es[first].v]
        IN  \A k \in 1..Len(unit.results) : unit.results[k] = expected

\* C19 witness: classifyError, called twice on an errors array that holds an
\* unrecognised code before code 353, answered errCSRF.
C19_Witness ==
    /\ unit.pc = "classifyError"
    /\ unit.body.kind = "errors"
    /\ Len(unit.body.errors) = 2
    /\ unit.body.errors[1] = [t |-> "int", v |-> 999]
    /\ unit.body.errors[2] = [t |-> "int", v |-> 353]
    /\ unit.results = <<errCSRF, errCSRF>>


\* C20: with the same signing state, timestamp and random byte, the id
\* GenerateID gives for path + "?" + query is the id it gives for path.
C20_QueryIgnored ==
    (unit.pc = "GenerateID" /\ unit.withQuery # NoID /\ unit.bare # NoID)
        => unit.withQuery = unit.bare

\* C20 witness: both ids were computed for the path "/a" and the query "a".
C20_Witness ==
    /\ unit.pc = "GenerateID"
    /\ unit.path = <<"/", "a">>
    /\ unit.query = <<"a">>
    /\ unit.randomNum = 1
    /\ unit.withQuery # NoID
    /\ unit.bare # NoID
    /\ unit.withQuery = unit.bare
    /\ unit.bare[Len(unit.bare) - 1].v.sha256 =
         unit.method \o <<"!", "/", "a", "!", unit.timeNow>> \o defaultKeyword
            \o unit.ct.animationKey


\* C21: every GenerateID output starts with the random byte r, and XOR-ing
\* the bytes after it with r gives keyBytes, the 4 little-endian bytes of t,
\* the first 16 bytes of the SHA-256 digest of the hash input and 0x03:
\* a sequence in which r does not occur, so two outputs for the same method,
\* path, t, animationKey and keyBytes differ only through r.
C21_OnlyPrefixVaries ==
    unit.pc = "GenerateID" =>
        \A out \in {unit.withQuery, unit.bare} \ {NoID} :
            LET t == unit.timeNow
                r == out[1].v
                input == unit.method \o <<"!">> \o stripQuery(unit.path) \o <<"!">>
                         \o <<t>> \o defaultKeyword \o unit.ct.animationKey
                plain == bytes(unit.ct.keyBytes)
                         \o bytes(<<t % 256, (t \div 256) % 256, (t \div 65536) % 256,
                                    (t \div 16777216) % 256>>)
                         \o [i \in 1..16 |->
                               [known |-> FALSE, v |-> [sha256 |-> input, i |-> i],
                                mask |-> 0]]
                         \o bytes(<<3>>)
            IN  /\ r = unit.randomNum
                /\ Len(out) = Len(plain) + 1
                /\ \A i \in 1..Len(plain) : xorByte(out[i + 1], r) = plain[i]

\* C21 witness: an id computed with r = 3 at t = 258, whose masked time bytes
\* are 2^3, 1^3, 0^3, 0^3.
C21_Witness ==
    /\ unit.pc = "GenerateID"
    /\ unit.timeNow = 258
    /\ unit.randomNum = 3
    /\ unit.bare # NoID
    /\ unit.bare[1] = byte(3)
    /\ SubSeq(unit.bare, Len(unit.ct.keyBytes) + 2, Len(unit.ct.keyBytes) + 5)
         = bytes(<<1, 2, 3, 3>>)
    /\ unit.bare[Len(unit.bare)] = byte(0)


C23_ResetOrFallback ==
    (unit.pc = "parseRateLimitReset" /\ unit.returned) =>
        LET v == unit.v
            body == IF v # <<>> /\ v[1] \in {"-", "+"} THEN Tail(v) ELSE v
            digits == body # <<>> /\ \A i \in 1..Len(body) : body[i] \in {"0", "1", "9"}
            val(c) == IF c = "0" THEN 0 ELSE IF c = "1" THEN 1 ELSE 9
            abs == IF Len(body) = 0 THEN 0
                   ELSE IF Len(body) = 1 THEN val(body[1])
                   ELSE IF Len(body) = 2 THEN 10 * val(body[1]) + val(body[2])
                   ELSE IF Len(body) = 3
                   THEN 100 * val(body[1]) + 10 * val(body[2]) + val(body[3])
                   ELSE 1000 * val(body[1]) + 100 * val(body[2]) + 10 * val(body[3])
                        + val(body[4])
            value == IF v # <<>> /\ v[1] = "-" THEN 0 - abs ELSE abs
        IN  IF digits /\ value <= MaxInt /\ value >= 0 - MaxInt - 1
            THEN unit.result = value
            ELSE unit.result = unit.t + rateLimitFallback

\* C23 witness: the header "19" gave the instant 19, called at another time.
C23_Witness ==
    /\ unit.pc = "parseRateLimitReset"
    /\ unit.returned
    /\ unit.v = <<"1", "9">>
    /\ unit.t = 2
    /\ unit.result = 19


\* C26: when the first response of an attempt is a 401 or 403 that
\* classifies as neither CSRF nor auth-expired, a failure is recorded on the
\* account and the call returns the error in that step.
C26_FatalOn401 ==
    [][\A p \in Procs :
        (/\ calls[p].pc = "sent"
         /\ calls'[p] # calls[p]
         /\ lastResp'.err = "nil"
         /\ lastResp'.status \in {401, 403}
         /\ lastResp'.class \notin {errCSRF, errAuthExpired})
        => /\ accounts'[calls[p].acc].failed = accounts[calls[p].acc].failed + 1
           /\ calls'[p].pc = "done"
           /\ calls'[p].result = "error"]_vars


\* C27: when the first response of a doGET attempt has a status other than
\* 200, 401, 403 and 429, a failure is recorded on the account, the account
\* is hard-deactivated exactly when the health tracker votes so, and the call
\* returns the error in that step: no request follows, no other account and
\* no guest token is touched.
C27_OtherStatusIsFatal ==
    [][\A p \in Procs :
        (/\ calls[p].pc = "sent"
         /\ calls[p].kind = "GET"
         /\ calls'[p] # calls[p]
         /\ lastResp'.err = "nil"
         /\ lastResp'.status \notin {200, 401, 403, 429})
        => LET id == calls[p].acc
           IN  /\ accounts'[id].total = accounts[id].total + 1
               /\ accounts'[id].failed = accounts[id].failed + 1
               /\ accounts'[id].consec = accounts[id].consec + 1
               /\ IF lastResp'.vote
                  THEN ~accounts'[id].active /\ accounts'[id].reactivateAt = 0
                  ELSE /\ accounts'[id].active = accounts[id].active
                       /\ accounts'[id].reactivateAt = accounts[id].reactivateAt
               /\ calls'[p].pc = "done"
               /\ calls'[p].result = "error"
               /\ calls'[p].hook = "failure"
               /\ nReq' = nReq
               /\ guest' = guest
               /\ \A o \in Accounts \ {id} : accounts'[o] = accounts[o]]_vars

\* C27 witness: a doGET returned the error of an HTTP 500 on which the
\* tracker voted, and the account is hard-deactivated.
C27_Witness ==
    \E p \in Procs, id \in Accounts :
        /\ lastResp.err = "nil"
        /\ lastResp.proc = p
        /\ lastResp.status = 500
        /\ lastResp.vote
        /\ calls[p].kind = "GET"
        /\ calls[p].pc = "done"
        /\ calls[p].result = "error"
        /\ calls[p].nTries = 1
        /\ ~accounts[id].active
        /\ accounts[id].reactivateAt = 0
        /\ accounts[id].failed = 1

\* C28: when the first response of a doGET attempt is an HTTP 200 classified
\* banned, suspended, blocked or not-authorized, the account is
\* soft-deactivated for BanCooldown, hard-deactivated, or soft-deactivated
\* for AuthCooldown, no success is recorded and the loop continues; and a
\* later selection of the call does not take the account it used before
\* while that account is deactivated and its time has not come.
C28_DeactivateAndContinue ==
    /\ [][\A p \in Procs :
            (/\ calls[p].pc = "sent"
             /\ calls[p].kind = "GET"
             /\ calls'[p] # calls[p]
             /\ lastResp'.err = "nil"
             /\ lastResp'.status = 200
             /\ lastResp'.class \in {errBanned, errSuspended, errBlocked, errNotAuthorized})
            => LET id == calls[p].acc
               IN  /\ ~accounts'[id].active
                   /\ accounts'[id].reactivateAt =
                        (CASE lastResp'.class = errBanned -> now + BanCooldown
                           [] lastResp'.class = errSuspended -> 0
                           [] OTHER -> now + AuthCooldown)
                   /\ accounts'[id].total = accounts[id].total
                   /\ calls'[p].hook = "failure"
                   /\ calls'[p].result # "body"
                   /\ calls'[p].attempt = calls[p].attempt + 1
                      \/ calls'[p].ended]_vars
    /\ [][\A p \in Procs :
            (/\ calls[p].pc \in {"backoff", "wait"}
             /\ calls[p].kind = "GET"
             /\ calls'[p].pc = "sent"
             /\ calls[p].acc # NoAccount
             /\ ~accounts[calls[p].acc].active
             /\ \/ accounts[calls[p].acc].reactivateAt = 0
                \/ now < accounts[calls[p].acc].reactivateAt)
            => calls'[p].acc # calls[p].acc]_vars

\* C28 witness: attempt 1 of a doGET runs on account 2 after account 1 was
\* answered "banned" in attempt 0 and soft-deactivated for BanCooldown.
C28_Witness ==
    \E p \in Procs :
        /\ calls[p].kind = "GET"
        /\ calls[p].pc = "sent"
        /\ calls[p].attempt = 1
        /\ calls[p].acc = 2
        /\ lastReq.acc = 2
        /\ calls[p].hook = "failure"
        /\ ~accounts[1].active
        /\ accounts[1].reactivateAt = now + BanCooldown
        /\ accounts[1].total = 0

\* C30: when the first response of a doGET attempt is an HTTP 200 classified
\* internal, the call returns the body and records a success exactly when
\* the body has a non-null data field; otherwise the loop continues, the
\* account stays as active as it was and no failure is recorded.
C30_InternalWithData ==
    [][\A p \in Procs :
        (/\ calls[p].pc = "sent"
         /\ calls[p].kind = "GET"
         /\ calls'[p] # calls[p]
         /\ lastResp'.err = "nil"
         /\ lastResp'.status = 200
         /\ lastResp'.class = errInternal)
        => LET id == calls[p].acc
           IN  IF lastResp'.data
               THEN /\ calls'[p].pc = "done"
                    /\ calls'[p].result = "body"
                    /\ calls'[p].hook = "success"
                    /\ accounts'[id].total = accounts[id].total + 1
                    /\ accounts'[id].failed = accounts[id].failed
                    /\ accounts'[id].consec = 0
               ELSE /\ calls'[p].result # "body"
                    /\ calls'[p].hook # "success"
                    /\ calls'[p].attempt = calls[p].attempt + 1 \/ calls'[p].ended
                    /\ accounts'[id].active = accounts[id].active
                    /\ accounts'[id].reactivateAt = accounts[id].reactivateAt
                    /\ accounts'[id].total = accounts[id].total
                    /\ accounts'[id].failed = accounts[id].failed]_vars

\* C30 witness: a doGET returned the body of a 200 that carries code 131 and
\* data, and the success is on the account.
C30_Witness ==
    \E p \in Procs :
        /\ lastResp.err = "nil"
        /\ lastResp.proc = p
        /\ lastResp.status = 200
        /\ lastResp.class = errInternal
        /\ lastResp.data
        /\ calls[p].kind = "GET"
        /\ calls[p].pc = "done"
        /\ calls[p].result = "body"
        /\ calls[p].hook = "success"
        /\ \E id \in Accounts : accounts[id].total = 1 /\ accounts[id].consec = 0
        /\ \A id \in Accounts : accounts[id].failed = 0 /\ accounts[id].active


\* C25: when the first response of a doGET attempt classifies as
\* auth-expired (HTTP 401, 403 or 200), relogin runs; when it succeeds the
\* request is re-sent once on the same account and an HTTP 200 answer is
\* returned as the body; when it fails the account is soft-deactivated for
\* AuthCooldown and the loop continues; after the re-send neither a relogin
\* nor a re-send follows in the attempt, and a later selection does not take
\* the deactivated account before its time.
C25_ReloginOnce ==
    [][\A p \in Procs :
        LET c == calls[p]
            id == c.acc
            first == /\ c.pc = "sent"
                     /\ lastResp'.err = "nil"
                     /\ lastResp'.status \in {200, 401, 403}
                     /\ lastResp'.class = errAuthExpired
            inRelogin == c.pc \in {"loginToken", "relogin"} /\ c.stage \in {"auth401", "auth200"}
            afterResend == c.pc = "retry" /\ c.stage \in {"auth401", "auth200"}
        IN  (c.kind = "GET" /\ calls'[p] # c /\ ~calls'[p].cancelled) =>
            /\ first => \/ calls'[p].pc = "loginToken" /\ lastReq'.kind = "loginActivate"
                        \/ lastRelogin' = [acc |-> id, err |-> TRUE]
            /\ (first \/ inRelogin) =>
                  \/ calls'[p].pc \in {"loginToken", "relogin"} /\ calls'[p].acc = id
                  \/ /\ lastRelogin' = [acc |-> id, err |-> TRUE]
                     /\ ~accounts'[id].active
                     /\ accounts'[id].reactivateAt = now + AuthCooldown
                     /\ calls'[p].result # "body"
                     /\ calls'[p].attempt = c.attempt + 1 \/ calls'[p].ended
                  \/ /\ lastRelogin' = [acc |-> id, err |-> FALSE]
                     /\ calls'[p].pc = "retry"
                     /\ calls'[p].acc = id
                     /\ lastReq'.kind = "account"
                     /\ lastReq'.acc = id
                     /\ lastReq'.inline
                     /\ lastReq'.authToken = accounts'[id].AuthToken
                     /\ lastReq'.ct0 = accounts'[id].CT0
                     /\ nReq' = nReq + 1
            /\ afterResend =>
                  /\ calls'[p].pc \notin {"retry", "loginToken", "relogin"}
                  /\ lastRelogin' = NoRelogin
                  /\ IF lastResp'.err = "nil" /\ lastResp'.status = 200
                     THEN calls'[p].pc = "done" /\ calls'[p].result = "body"
                     ELSE /\ calls'[p].result # "body"
                          /\ ~accounts'[id].active
                          /\ accounts'[id].reactivateAt = now + AuthCooldown
            /\ (/\ c.pc \in {"backoff", "wait"}
                /\ calls'[p].pc = "sent"
                /\ id # NoAccount
                /\ ~accounts[id].active
                /\ now < accounts[id].reactivateAt) => calls'[p].acc # id]_vars

\* C25 witness: after a 401 with code 32 the relogin succeeded, the health
\* counters are reset and the request is on its way again on that account.
C25_Witness ==
    \E p \in Procs :
        /\ calls[p].kind = "GET"
        /\ calls[p].pc = "retry"
        /\ calls[p].stage = "auth401"
        /\ lastRelogin = [acc |-> calls[p].acc, err |-> FALSE]
        /\ lastReq.kind = "account"
        /\ lastReq.acc = calls[p].acc
        /\ lastReq.inline
        /\ accounts[calls[p].acc].total = 0
        /\ accounts[calls[p].acc].active

\* C29: when the first response of a doGET attempt is an HTTP 200 classified
\* locked: without a CAPTCHA solver no relogin runs and the account is
\* soft-deactivated for BanCooldown; with a solver relogin runs, and when it
\* succeeds the request is re-sent once; when the relogin fails or the
\* re-sent request is not answered with 200 the account is soft-deactivated
\* for BanCooldown; after the re-send no relogin and no re-send follows.
C29_LockedNeedsSolver ==
    [][\A p \in Procs :
        LET c == calls[p]
            id == c.acc
            first == /\ c.pc = "sent"
                     /\ lastResp'.err = "nil"
                     /\ lastResp'.status = 200
                     /\ lastResp'.class = errLocked
            inRelogin == c.pc \in {"loginToken", "relogin"} /\ c.stage = "locked"
            afterResend == c.pc = "retry" /\ c.stage = "locked"
            deactivated == /\ ~accounts'[id].active
                           /\ accounts'[id].reactivateAt = now + BanCooldown
                           /\ calls'[p].result # "body"
                           /\ calls'[p].attempt = c.attempt + 1 \/ calls'[p].ended
        IN  (c.kind = "GET" /\ calls'[p] # c /\ ~calls'[p].cancelled) =>
            /\ (first /\ ~cfg.CaptchaSolver) =>
                  /\ lastRelogin' = NoRelogin
                  /\ calls'[p].pc \notin {"loginToken", "relogin", "retry"}
                  /\ accounts'[id].AuthToken = accounts[id].AuthToken
                  /\ sessions' = sessions
                  /\ deactivated
            /\ (first /\ cfg.CaptchaSolver) =>
                  \/ calls'[p].pc = "loginToken" /\ lastReq'.kind = "loginActivate"
                  \/ lastRelogin' = [acc |-> id, err |-> TRUE]
            /\ ((first /\ cfg.CaptchaSolver) \/ inRelogin) =>
                  \/ calls'[p].pc \in {"loginToken", "relogin"} /\ calls'[p].acc = id
                  \/ lastRelogin' = [acc |-> id, err |-> TRUE] /\ deactivated
                  \/ /\ lastRelogin' = [acc |-> id, err |-> FALSE]
                     /\ calls'[p].pc = "retry"
                     /\ lastReq'.kind = "account"
                     /\ lastReq'.acc = id
                     /\ lastReq'.inline
                     /\ nReq' = nReq + 1
            /\ inRelogin => cfg.CaptchaSolver
            /\ afterResend =>
                  /\ calls'[p].pc \notin {"retry", "loginToken", "relogin"}
                  /\ lastRelogin' = NoRelogin
                  /\ IF lastResp'.err = "nil" /\ lastResp'.status = 200
                     THEN calls'[p].pc = "done" /\ calls'[p].result = "body"
                     ELSE deactivated]_vars

\* C29 witness: with a solver configured, the relogin after a "locked"
\* answer succeeded and the request is on its way again.
C29_Witness ==
    \E p \in Procs :
        /\ cfg.CaptchaSolver
        /\ calls[p].kind = "GET"
        /\ calls[p].pc = "retry"
        /\ calls[p].stage = "locked"
        /\ lastRelogin = [acc |-> calls[p].acc, err |-> FALSE]
        /\ lastReq.kind = "account"
        /\ lastReq.acc = calls[p].acc
        /\ lastReq.inline


\* C24 as stated: on a first response classified as CSRF the ct0 is rotated,
\* the session is saved and the request is re-sent once on the same account
\* with the rotated ct0; when the re-sent request succeeds the body is
\* returned without a further request, the session file holds the account's
\* ct0 and that ct0 differs from the one the first request carried; when it
\* fails no inline re-send follows.
C24_FinalCT0Differs ==
    [][\A p \in Procs :
        LET c == calls[p]
            id == c.acc
        IN  /\ (c.pc = "sent" /\ calls'[p].pc = "retry") =>
                  /\ calls'[p].stage \in {"csrf401", "csrf200"}
                  /\ accounts'[id].ct0RefreshedAt = now
                  /\ sessions'[id].CT0 = accounts'[id].CT0
                  /\ sessions'[id].AuthToken = accounts'[id].AuthToken
                  /\ lastReq'.kind = "account" /\ lastReq'.acc = id /\ lastReq'.inline
                  /\ lastReq'.ct0 = accounts'[id].CT0
                  /\ nReq' = nReq + 1
            /\ (c.pc = "retry" /\ calls'[p].pc # "retry") =>
                  /\ nReq' = nReq
                  /\ calls'[p].pc \in {"done", "backoff", "wait"}
                  /\ calls'[p].result = "body" =>
                        /\ sessions'[id].CT0 = accounts'[id].CT0
                        /\ accounts'[id].CT0 # c.ct0]_vars

\* C24, amended: as above, but the ct0 that is final after a successful
\* re-send is the value of the ct0 cookie that the second answer set, when
\* it set one and the call is a doGET, and the rotated value otherwise;
\* nothing compares it with the ct0 of the first request.  Within the
\* attempt there is one rotation and one re-send.
C24_RotateResendOnce ==
    [][\A p \in Procs :
        LET c == calls[p]
            id == c.acc
        IN  /\ (c.pc = "sent" /\ calls'[p].pc = "retry"
                /\ calls'[p].stage \in {"csrf401", "csrf200"}) =>
                  /\ lastResp'.class = errCSRF
                  /\ lastResp'.status \in {200, 401, 403}
                  /\ accounts'[id].ct0RefreshedAt = now
                  /\ accounts'[id].AuthToken = accounts[id].AuthToken
                  /\ sessions'[id].CT0 = accounts'[id].CT0
                  /\ sessions'[id].AuthToken = accounts'[id].AuthToken
                  /\ lastReq'.kind = "account" /\ lastReq'.acc = id /\ lastReq'.inline
                  /\ lastReq'.ct0 = accounts'[id].CT0
                  /\ lastReq'.authToken = accounts'[id].AuthToken
                  /\ nReq' = nReq + 1
            /\ (c.pc = "sent" /\ calls'[p] # c
                /\ lastResp'.err = "nil" /\ lastResp'.class = errCSRF
                /\ lastResp'.status \in {200, 401, 403}) => calls'[p].pc = "retry"
            /\ (c.pc = "retry" /\ c.stage \in {"csrf401", "csrf200"}
                /\ calls'[p] # c /\ ~c.cancelled /\ ~calls'[p].cancelled) =>
                  /\ nReq' = nReq
                  /\ calls'[p].pc \in {"done", "backoff", "wait"}
                  /\ lastReq' = NoReq
                  /\ calls'[p].result = "body" =>
                        /\ calls'[p].pc = "done"
                        /\ lastResp'.err = "nil"
                        /\ sessions'[id].CT0 = accounts'[id].CT0
                        /\ accounts'[id].CT0 =
                              IF c.kind = "GET" /\ lastResp'.newCT0 # 0
                              THEN lastResp'.newCT0 ELSE accounts[id].CT0
                  /\ calls'[p].result # "body" =>
                        /\ accounts'[id].CT0 = accounts[id].CT0
                        /\ sessions' = sessions]_vars

\* C24 witness: one doGET ended with the body after two requests, the second
\* answer set the ct0 cookie to the value the first request carried, and
\* the account and its session file hold that value again.
C24_Witness ==
    \E p \in Procs :
        /\ calls[p].pc = "done"
        /\ calls[p].kind = "GET"
        /\ calls[p].result = "body"
        /\ nCalls = 1
        /\ nReq = 2
        /\ lastResp.newCT0 = 1
        /\ accounts[1].total = 1
        /\ accounts[1].CT0 = 1
        /\ sessions[1].CT0 = 1


\* C31: a login that returned nil was presented LoginSuccessSubtask or
\* AccountDuplicationCheck and found an auth_token cookie (and holds a
\* non-empty ct0, generated when the jar had none); a login that was
\* presented DenyLoginSubtask returned an error and left the credentials
\* as they were.
C31_SuccessAfterTerminal ==
    /\ (login.pc = "returned" /\ ~login.err)
        => /\ login.terminal
           /\ login.subtask \in {"LoginSuccessSubtask", "AccountDuplicationCheck"}
           /\ login.jar # 0
           /\ login.acc.AuthToken = login.jar
           /\ login.acc.CT0 # 0
    /\ (login.pc = "returned" /\ login.subtask = "DenyLoginSubtask")
        => /\ login.err
           /\ login.acc.AuthToken = 0
           /\ login.acc.CT0 = 0


\* C32: for every account, in every state, the ct0 refresh timestamp is zero
\* exactly when the ct0 is unset.
C32_RefreshedIffSet ==
    \A id \in Accounts : accounts[id].ct0RefreshedAt = 0 <=> accounts[id].CT0 = 0


\* C33: every access to the account's guarded fields is made while holding
\* the account's mutex, no Credentials() call returns a pair that no single
\* update wrote, and no goroutine waits for the network while holding the
\* mutex.
C33_GuardedByMutex ==
    /\ unit.unlocked = {}
    /\ unit.seen \in unit.pairs
    /\ \A i \in Goroutines : unit.g[i].pc \in NetworkPcs => unit.mu # i

\* C34: at no time are two writes to the account's session file in progress.
C34_OneWriter == Cardinality(unit.writing) <= 1

\* C39: whenever no goroutine is inside an operation on the account, the
\* session file, if it exists, holds the account's (authToken, ct0).
C39_FileMatchesMemory ==
    (\A i \in Goroutines : unit.g[i].pc = "idle")
    => \/ ~unit.file.exists
       \/ /\ unit.file.AuthToken = unit.AuthToken
          /\ unit.file.CT0 = unit.CT0


\* C35: a transport error whose message matches a proxy pattern, on an
\* account with a proxy, adds one to proxyConsecFails and sets proxyBackoff
\* to now plus the jittered backoff of the new count (30 s, 60 s, 120 s, ...,
\* at most 1800 s before jitter), and changes neither the health counters
\* nor the active flag; any other transport error counts one health failure
\* and leaves the proxy state alone; an HTTP response sets proxyConsecFails
\* to 0.
C35_BackoffBase == <<30, 60, 120, 240, 480, 960, 1800, 1800, 1800, 1800>>

C35_ProxyBackoff ==
    [][LET a == unit.acc
           b == unit'.acc
           proxyFailure == unit'.last \in {"proxy", "SOCKS", "tunnel",
                                           "connection refused", "no such host"}
           otherFailure == unit'.last \in {"timeout", "EOF"}
       IN  (unit'.nEvents = unit.nEvents + 1) =>
           /\ (proxyFailure /\ a.Proxy) =>
                 /\ b.proxyConsecFails = a.proxyConsecFails + 1
                 /\ b.proxyBackoff = unit.clock + C35_BackoffBase[b.proxyConsecFails]
                       + (unit'.j * ((C35_BackoffBase[b.proxyConsecFails] * 3) \div 10))
                 /\ b.total = a.total /\ b.failed = a.failed /\ b.consec = a.consec
                 /\ b.active = a.active /\ b.reactivateAt = a.reactivateAt
           /\ (otherFailure \/ (proxyFailure /\ ~a.Proxy)) =>
                 /\ b.failed = a.failed + 1
                 /\ b.total = a.total + 1
                 /\ b.consec = a.consec + 1
                 /\ b.proxyConsecFails = a.proxyConsecFails
                 /\ b.proxyBackoff = a.proxyBackoff
                 /\ b.active = a.active
           /\ unit'.last = "response" =>
                 /\ b.proxyConsecFails = 0
                 /\ b.proxyBackoff = a.proxyBackoff
                 /\ b.failed = a.failed]_vars

\* C35 witness: the eighth proxy failure in a row: the backoff is at its cap
\* and no health failure was counted.
C35_Witness ==
    /\ unit.acc.Proxy
    /\ unit.acc.proxyConsecFails = 8
    /\ unit.j = 0
    /\ unit.acc.proxyBackoff = unit.clock + ProxyBackoffMax
    /\ unit.acc.failed = 0
    /\ unit.acc.active


\* C36: the fallback uses the cached guest token exactly when it is
\* non-empty and now is not before guestLimitedUntil; a guest request
\* answered with 429 leaves its token limited until a later time, and no
\* guest request carries a token that is limited at the time of the send; a
\* guest 401/403 starts one reacquisition, after whose success one re-send
\* follows and after that re-send the call returns; one acquireGuestToken
\* call sends at most 3 activation requests.
C36_GuestTokenUse ==
    [][\A p \in Procs :
        LET c == calls[p]
            inGuest == c.pc \in {"acquire", "acquireBackoff", "guestSent",
                                 "reacquire", "reacquireBackoff", "guestRetry"}
        IN  (calls'[p] # c /\ ~calls'[p].cancelled) =>
            /\ (~inGuest /\ calls'[p].pc \in {"acquire", "guestSent"}) =>
                  /\ calls'[p].pc = "guestSent"
                        <=> (guest.guestToken # 0 /\ now >= guest.guestLimitedUntil)
                  /\ calls'[p].pc = "guestSent" => lastReq'.gt = guest.guestToken
            /\ (c.pc \in {"guestSent", "guestRetry"}
                /\ lastResp'.err = "nil" /\ lastResp'.status = 429) =>
                  /\ guest'.guestToken = guest.guestToken
                  /\ guest'.guestLimitedUntil > now
            /\ lastReq'.kind = "guest" =>
                  ~(lastReq'.gt = guest.guestToken /\ now < guest.guestLimitedUntil)
            /\ (c.pc = "guestSent" /\ lastResp'.err = "nil"
                /\ lastResp'.status \in {401, 403}) =>
                  calls'[p].pc = "reacquire" /\ lastReq'.kind = "activate"
            /\ c.pc \in {"reacquire", "reacquireBackoff"} =>
                  calls'[p].pc \in {"reacquire", "reacquireBackoff", "guestRetry", "done"}
            /\ c.pc = "guestRetry" => calls'[p].pc = "done" /\ lastReq' = NoReq
            /\ calls'[p].pc \in {"acquire", "reacquire"} =>
                  calls'[p].acqAttempt < guestAttempts]_vars


\* C38: every request sent with an account's credentials carries a non-empty
\* auth token.
C38_NoEmptyAuthToken ==
    lastReq.kind = "account" => lastReq.authToken # 0

\* C37: initialisation takes the first match of the script as the row index
\* and the remaining matches as the key-byte indices, and for a script with
\* a single match, a home page with a valid verification tag and the frame
\* and row the key selects, it succeeds and produces an animation key.
C37_SingleMatchSucceeds ==
    (unit.pc = "newct" /\ unit.stage = "returned") =>
        LET k == unit.html.meta.bytes
            row == IF unit.js[1] < Len(k) THEN k[unit.js[1] + 1] % 16 ELSE 0
        IN  /\ unit.res.err = "nil" =>
                /\ Len(unit.js) >= 1
                /\ unit.res.ct.rowIndex = Head(unit.js)
                /\ unit.res.ct.keyBytesIndices = Tail(unit.js)
            /\ (/\ Len(unit.js) = 1
                /\ unit.html.meta.found /\ unit.html.meta.base64
                /\ Len(k) >= 6
                /\ Len(unit.html.frames[k[6] % 4]) > row
                /\ Len(unit.html.frames[k[6] % 4][row + 1]) >= 11)
               => /\ unit.res.err = "nil"
                  /\ unit.res.ct.animationKey # <<>>

\* C40: whenever newClientTransaction returns without error, the verification
\* key has at least 6 bytes, the selected SVG frame and row exist, the row
\* has at least 11 values and the animation key is non-empty.
C40_UsableAnimationKey ==
    (unit.pc = "newct" /\ unit.stage = "returned" /\ unit.res.err = "nil") =>
        LET k == unit.res.ct.keyBytes
            row == IF unit.res.ct.rowIndex < Len(k)
                   THEN k[unit.res.ct.rowIndex + 1] % 16 ELSE 0
        IN  /\ Len(k) >= 6
            /\ Len(unit.html.frames[k[6] % 4]) > row
            /\ Len(unit.html.frames[k[6] % 4][row + 1]) >= 11
            /\ unit.res.ct.animationKey # <<>>
            /\ unit.ct = unit.res.ct

=============================================================================
